---- MODULE Spec2Model ----
(***************************************************************************)
(* State-machine model of DevSuniteScraperService (backend/jobs/views.py): *)
(* scrape_jobs, setup_driver, close_driver, extract_job_cards,             *)
(* navigate_to_next_page, parse_job_card, scrape_job_details and           *)
(* save_job_to_database, together with the browser session, the rendered   *)
(* listing page and the Job table they act on.                             *)
(*                                                                         *)
(* Text that the code compares or rewrites character by character (title,  *)
(* company, external_id) is a sequence of one-character strings; text that *)
(* is only copied is an atomic string.                                     *)
(***************************************************************************)
EXTENDS Integers, Sequences, FiniteSets, TLC

VARIABLES
    stub,               \* which fetcher drives the run: "free" or a scripted stub
    shown,              \* index of the scripted page the browser shows (0: free)
    runs,               \* number of scrape_jobs calls started so far
    faults,             \* number of collaborator failures injected so far
    pc,                 \* position inside scrape_jobs
    driver,             \* self.driver: "none", "open" or "closed" (quit invoked)
    max_jobs, max_jobs_is_int, max_pages, scrape_details,  \* arguments of scrape_jobs
    page,               \* cards of the listing page the browser currently renders
    all_jobs, page_num, previous_job_count, no_change_count, \* locals of extract_job_cards
    jobs_to_process, idx, job_details, jobs_saved,           \* locals of scrape_jobs
    db,                 \* rows of the Job table, in insertion order
    results,            \* the results dict of scrape_jobs
    \* history variables (observations of the run, never read by the program)
    pagesProcessed,     \* listing pages processed by the page loop in this run
    navCalls,           \* calls of navigate_to_next_page in this run
    lastNav,            \* outcome of the last navigate_to_next_page call
    detailStatus,       \* detail fetch of the current job: "none", "ok", "failed"
    lastSave,           \* outcome of the last save_job_to_database call
    setupResult,        \* what setup_driver returned: "pending", "ok", "failed"
    pageLoads,          \* driver.get calls in this run
    dbWrites,           \* rows written in this run
    useAfterClose,      \* a driver call was made after driver.quit
    request,            \* how the running call was entered, and the HTTP answer
    call                \* the call under study: a pure function and its result,
                        \* or navigate_to_next_page observed in detail

vars == <<stub, shown, runs, faults, pc, driver, max_jobs, max_jobs_is_int,
          max_pages, scrape_details, page, all_jobs, page_num,
          previous_job_count, no_change_count, jobs_to_process, idx,
          job_details, jobs_saved, db, results, pagesProcessed,
          navCalls, lastNav, detailStatus, lastSave, setupResult, pageLoads,
          dbWrites, useAfterClose, request, call>>

----------------------------------------------------------------------------
(* Bounds of the model *)

MaxCards == 2          \* cards on one freely rendered listing page
MaxPagesArg == 3       \* largest max_pages argument tried
MaxRuns == 2           \* scrape_jobs calls in one behaviour
MaxFaults == 1         \* collaborator failures in one behaviour

\* max_jobs arguments tried: <<value, is an int>>; a value that is no int
\* (a string, None) makes "max_jobs > 0" raise TypeError
MaxJobsArgs == {<<0, TRUE>>, <<1, TRUE>>, <<100, TRUE>>, <<0, FALSE>>}

----------------------------------------------------------------------------
(* Text *)

UnknownPosition ==
    <<"U","n","k","n","o","w","n"," ","P","o","s","i","t","i","o","n">>
UnknownCompany ==
    <<"U","n","k","n","o","w","n"," ","C","o","m","p","a","n","y">>

\* str.replace(' ', '_')
ReplaceSpaces(s) == [i \in 1..Len(s) |-> IF s[i] = " " THEN "_" ELSE s[i]]

Prefix == <<"d","e","v","s","u","n","i","t","e","_">>

\* f"devsunite_{company.replace(' ', '_')}_{title.replace(' ', '_')}"
ExternalId(company, title) ==
    Prefix \o ReplaceSpaces(company) \o <<"_">> \o ReplaceSpaces(title)

----------------------------------------------------------------------------
(* Cards of a listing page *)

Card(hasTitle, title, hasCompany, company, location, badge, url) ==
    [hasTitle |-> hasTitle, title |-> title,
     hasCompany |-> hasCompany, company |-> company,
     location |-> location, badge |-> badge, url |-> url,
     desc |-> "short", broken |-> FALSE]

DetailUrl == "https://devsunite.com/jobs/0123456789a"

WellFormed(t, c) == Card(TRUE, t, TRUE, c, "Remote", "FULL TIME", DetailUrl)

cA == WellFormed(<<"a">>, <<"x">>)
\* same title and company as cA, every other field different
cA2 == Card(TRUE, <<"a">>, TRUE, <<"x">>, "Pune", "", "")
cB == WellFormed(<<"b">>, <<"x">>)
CardNoTitle(c) == Card(FALSE, <<>>, TRUE, c, "Remote", "FULL TIME", DetailUrl)
cEmptyTitle == Card(TRUE, <<>>, TRUE, <<"x">>, "Remote", "", "")
cNoCompany == Card(TRUE, <<"b">>, FALSE, <<>>, "Remote", "", "")

\* a card whose markup makes a lookup inside parse_job_card raise
cBroken == [WellFormed(<<"c">>, <<"x">>) EXCEPT !.broken = TRUE]

CardPool == {cA, cA2, cB, cEmptyTitle, cNoCompany}

SeqsUpTo(S, n) == UNION {[1..k -> S] : k \in 0..n}

\* what a freely rendered listing page can show
PageContents == SeqsUpTo(CardPool, MaxCards)

\* scripted fetcher stubs: the pages they show, in order
ScenCard(k) == WellFormed(<<"a">>, <<"x">> \o [i \in 1..k |-> "a"])
TwoPage5x5 == << [k \in 1..5 |-> ScenCard(k)], [k \in 1..5 |-> ScenCard(5 + k)] >>
OnePage4Plus1 ==
    << <<ScenCard(1), ScenCard(2), CardNoTitle(<<"x">>), ScenCard(3), ScenCard(4)>> >>

\* two renderings of an infinite-scroll listing with a broken second card
BrokenCardPages ==
    << <<ScenCard(1), cBroken, ScenCard(2)>>,
       <<ScenCard(1), cBroken, ScenCard(2), cBroken, ScenCard(3)>> >>

\* three renderings with three cards each; on every one of them a card
\* beyond the jobs found so far yields a new job
SameCountPages ==
    << <<CardNoTitle(<<"x">>), CardNoTitle(<<"x">>), ScenCard(1)>>,
       <<ScenCard(1), ScenCard(2), CardNoTitle(<<"x">>)>>,
       <<ScenCard(1), ScenCard(2), ScenCard(3)>> >>

\* one page with two jobs whose companies and titles differ
SameKeyPages ==
    << <<WellFormed(<<"c">>, <<"a"," ","b">>), WellFormed(<<"b"," ","c">>, <<"a">>)>> >>

Script(s) ==
    CASE s = "twoPage5x5" -> TwoPage5x5
      [] s = "onePage4plus1" -> OnePage4Plus1
      [] s = "brokenCard" -> BrokenCardPages
      [] s = "sameCount" -> SameCountPages
      [] s = "sameKey" -> SameKeyPages
      [] OTHER -> << >>

\* the contents the browser can render when it shows scripted page k
Rendered(s, k) == IF s = "free" THEN PageContents ELSE {Script(s)[k]}

----------------------------------------------------------------------------
(* parse_job_card *)

\* the job-type badge: its upper-cased text mapped to a job type
JobTypeOfBadge(badge) ==
    CASE badge = "" -> "Full-time"
      [] badge = "FULL TIME" -> "FULL_TIME"
      [] badge = "PART TIME" -> "PART_TIME"
      [] badge = "INTERNSHIP" -> "INTERNSHIP"
      [] badge = "CONTRACT" -> "CONTRACT"
      [] OTHER -> badge

JobInfo(card) ==
    [title |-> IF card.hasTitle THEN card.title ELSE UnknownPosition,
     company |-> IF card.hasCompany THEN card.company ELSE UnknownCompany,
     location |-> card.location,
     job_type |-> JobTypeOfBadge(card.badge),
     view_details_url |-> card.url,
     short_description |-> card.desc]

ParseJobCardKeepsPlaceholders(card) == <<JobInfo(card)>>

\* the result of parse_job_card: <<job_info>>, or << >> for None; an
\* exception inside it is caught by its own except clause, which returns None
ParseJobCard(card) ==
    LET job_info == JobInfo(card)
    IN  IF card.broken THEN << >>
        ELSE IF job_info.title # UnknownPosition /\ job_info.company # UnknownCompany
        THEN <<job_info>>
        ELSE << >>

----------------------------------------------------------------------------
(* extract_job_cards: the body of one page *)

IsDuplicate(job_info, jobs) ==
    \E k \in 1..Len(jobs) :
        jobs[k].title = job_info.title /\ jobs[k].company = job_info.company

RECURSIVE PageJobsEndingAtBrokenCard(_, _, _)
PageJobsEndingAtBrokenCard(cards, i, jobs) ==
    IF i > Len(cards) \/ cards[i].broken THEN << >>
    ELSE LET parsed == ParseJobCard(cards[i])
             kept == IF parsed # << >> /\ ~IsDuplicate(parsed[1], jobs)
                     THEN parsed ELSE << >>
         IN  kept \o PageJobsEndingAtBrokenCard(cards, i + 1, jobs)

\* the for loop over job_cards[start_index:]: the jobs it appends to page_jobs
RECURSIVE PageJobs(_, _, _)
PageJobs(cards, i, jobs) ==
    IF i > Len(cards) THEN << >>
    ELSE LET parsed == ParseJobCard(cards[i])
             kept == IF parsed # << >> /\ ~IsDuplicate(parsed[1], jobs)
                     THEN parsed ELSE << >>
         IN  kept \o PageJobs(cards, i + 1, jobs)

StartIndex(n, jobs) == IF n > 1 THEN Len(jobs) ELSE 0

Min(a, b) == IF a < b THEN a ELSE b

----------------------------------------------------------------------------
(* Job table *)

Matching(rows, key) == {k \in 1..Len(rows) : rows[k].external_id = key}

\* Job.objects.update_or_create(external_id=key, defaults=fields):
\* [ok, created, rows]; ok is FALSE when it raises MultipleObjectsReturned
UpdateOrCreate(rows, key, fields) ==
    LET m == Matching(rows, key)
    IN  IF m = {} THEN [ok |-> TRUE, created |-> TRUE, rows |-> Append(rows, fields)]
        ELSE IF Cardinality(m) = 1
             THEN [ok |-> TRUE, created |-> FALSE,
                   rows |-> [k \in 1..Len(rows) |-> IF k \in m THEN fields ELSE rows[k]]]
             ELSE [ok |-> FALSE, created |-> FALSE, rows |-> rows]

NoDetails == [present |-> FALSE, full_description |-> ""]

\* the defaults={...} of save_job_to_database
JobDefaults(job_info, details) ==
    LET full_description == IF details.present THEN details.full_description
                            ELSE job_info.short_description
    IN  [role |-> job_info.title,
         company_name |-> job_info.company,
         location |-> job_info.location,
         job_type |-> job_info.job_type,
         full_description |-> IF full_description # "" THEN full_description
                              ELSE job_info.short_description,
         view_details_link |-> job_info.view_details_url,
         details_scraped |-> details.present]

JobFieldsKeyedByLocation(job_info, details) ==
    [external_id |-> ExternalId(job_info.company, job_info.title)
                        \o <<"_", job_info.location>>]
        @@ JobDefaults(job_info, details)

\* the row save_job_to_database writes: its external_id and its defaults
JobFields(job_info, details) ==
    [external_id |-> ExternalId(job_info.company, job_info.title)]
        @@ JobDefaults(job_info, details)

----------------------------------------------------------------------------
(* State *)

NewResults ==
    [success |-> FALSE, jobs_scraped |-> 0, jobs_saved |-> 0,
     pages_scraped |-> 0, errors |-> << >>]

NoNav == [control |-> "none", changed |-> FALSE, sigChanged |-> FALSE,
          result |-> FALSE, streak |-> 0, clicks |-> 0, raised |-> FALSE]

NoSave == [called |-> FALSE]

JobsPerPageEstimate == 12

Stubs == {"free", "twoPage5x5", "onePage4plus1", "brokenCard", "sameCount", "sameKey"}

\* no call has been made yet
NoRequest == [via |-> "none", status |-> 0]

\* no pure function is under study
NoCall == [fn |-> "none"]

\* the service before any call, driven by fetcher s
IdleWith(s) ==
    /\ stub = s
    /\ shown = 0
    /\ runs = 0
    /\ faults = 0
    /\ pc = "idle"
    /\ driver = "none"
    /\ max_jobs = 0
    /\ max_jobs_is_int = TRUE
    /\ max_pages = 1
    /\ scrape_details = FALSE
    /\ page = << >>
    /\ all_jobs = << >>
    /\ page_num = 1
    /\ previous_job_count = 0
    /\ no_change_count = 0
    /\ jobs_to_process = << >>
    /\ idx = 1
    /\ job_details = NoDetails
    /\ jobs_saved = 0
    /\ db = << >>
    /\ results = NewResults
    /\ pagesProcessed = 0
    /\ navCalls = 0
    /\ lastNav = NoNav
    /\ detailStatus = "none"
    /\ lastSave = NoSave
    /\ setupResult = "pending"
    /\ pageLoads = 0
    /\ dbWrites = 0
    /\ useAfterClose = FALSE
    /\ request = NoRequest

InitWith(s) == IdleWith(s) /\ call = NoCall

Init == InitWith("free")

\* the fetcher replaced by one of the scripted stubs
InitStub == \E s \in Stubs \ {"free"} : InitWith(s)

\* a collaborator (browser, site, database) may fail while the budget lasts
MayFail == faults < MaxFaults
Fail == faults' = faults + 1
NoFail == faults' = faults

\* every call on self.driver is observed
DriverCall == useAfterClose' = (useAfterClose \/ driver = "closed")

----------------------------------------------------------------------------
(* scrape_jobs *)

\* scrape_jobs is entered on a fresh DevSuniteScraperService
Enter(jobs_cap, is_int, pages_cap, details) ==
    /\ runs < MaxRuns
    /\ runs' = runs + 1
    /\ max_jobs' = jobs_cap
    /\ max_jobs_is_int' = is_int
    /\ max_pages' = pages_cap
    /\ scrape_details' = details
    /\ driver' = "none"
    /\ results' = NewResults
    /\ pc' = "setup"
    /\ page' = << >>
    /\ shown' = 0
    /\ all_jobs' = << >>
    /\ page_num' = 1
    /\ previous_job_count' = 0
    /\ no_change_count' = 0
    /\ jobs_to_process' = << >>
    /\ idx' = 1
    /\ job_details' = NoDetails
    /\ jobs_saved' = 0
    /\ pagesProcessed' = 0
    /\ navCalls' = 0
    /\ lastNav' = NoNav
    /\ detailStatus' = "none"
    /\ lastSave' = NoSave
    /\ setupResult' = "pending"
    /\ pageLoads' = 0
    /\ dbWrites' = 0
    /\ useAfterClose' = FALSE
    /\ UNCHANGED <<call, stub, faults, db>>

\* the first call of a behaviour: scrape_jobs with any arguments
Start ==
    /\ pc = "idle"
    /\ \E a \in MaxJobsArgs, p \in 1..MaxPagesArg, d \in BOOLEAN :
          Enter(a[1], a[2], p, d)
    /\ request' = [via |-> "scrape_jobs", status |-> 0]

RefreshMaxJobs == 50
RefreshMaxPages == 5

\* JobViewSet.refresh: scrape_jobs with the fixed refresh arguments
Refresh ==
    /\ pc \in {"idle", "returned"}
    /\ Enter(RefreshMaxJobs, TRUE, RefreshMaxPages, TRUE)
    /\ request' = [via |-> "refresh", status |-> 0]

----------------------------------------------------------------------------
(* JobViewSet.scrape_devsunite and the scrapejobs management command *)

\* a value of the request body: its JSON type and, for a number or a
\* boolean, the number Python compares it as (True is 1)
IntVal(n) == [type |-> "int", val |-> n]
BoolVal(b) == [type |-> "bool", val |-> IF b THEN 1 ELSE 0]
StrVal == [type |-> "str", val |-> 0]
Absent == [type |-> "absent", val |-> 0]

DefaultMaxJobs == 100
DefaultMaxPages == 10
MaxJobsLimit == 1000
MaxPagesLimit == 50

MaxJobsValues ==
    {Absent, IntVal(0 - 1), IntVal(0), IntVal(MaxJobsLimit), IntVal(MaxJobsLimit + 1),
     BoolVal(TRUE), StrVal}

MaxPagesValues ==
    {Absent, IntVal(0), IntVal(1), IntVal(MaxPagesLimit), IntVal(MaxPagesLimit + 1),
     BoolVal(TRUE), StrVal}

\* request.data.get(key, default)
Get(v, default) == IF v.type = "absent" THEN IntVal(default) ELSE v

\* isinstance(v, int): bool is a subclass of int
IsInstanceInt(v) == v.type \in {"int", "bool"}

ValidMaxJobs(v) == IsInstanceInt(v) /\ v.val >= 0 /\ v.val <= MaxJobsLimit

ValidMaxPages(v) == IsInstanceInt(v) /\ v.val >= 1 /\ v.val <= MaxPagesLimit

allButRequest == <<stub, shown, runs, faults, pc, driver, max_jobs, max_jobs_is_int,
                   max_pages, scrape_details, page, all_jobs, page_num,
                   previous_job_count, no_change_count, jobs_to_process, idx,
                   job_details, jobs_saved, db, results, pagesProcessed,
                   navCalls, lastNav, detailStatus, lastSave, setupResult,
                   pageLoads, dbWrites, useAfterClose, call>>

\* POST /api/jobs/scrape_devsunite/: 400 for a parameter that fails the
\* validation, else scrape_jobs on a fresh service
ScrapeDevsunite ==
    /\ pc = "idle"
    /\ \E mj \in MaxJobsValues, mp \in MaxPagesValues, d \in BOOLEAN :
          LET jobs_arg == Get(mj, DefaultMaxJobs)
              pages_arg == Get(mp, DefaultMaxPages)
              req == [via |-> "scrape_devsunite", max_jobs |-> jobs_arg,
                      max_pages |-> pages_arg, status |-> 0]
          IN  IF ~ValidMaxJobs(jobs_arg) \/ ~ValidMaxPages(pages_arg)
              THEN /\ request' = [req EXCEPT !.status = 400]
                   /\ UNCHANGED allButRequest
              ELSE /\ request' = req
                   /\ Enter(jobs_arg.val, TRUE, pages_arg.val, d)

\* --limit values tried: 0 stands for an option that was not given
CommandLimits == {0, 1}

\* manage.py scrapejobs [--limit N] [--skip-details]: the options go into a
\* MockRequest, and JobViewSet.refresh is called with it
ScrapeJobsCommand ==
    /\ pc = "idle"
    /\ \E limit \in CommandLimits, skip_details \in BOOLEAN :
          request' = [via |-> "scrapejobs", limit |-> limit,
                      skip_details |-> skip_details, status |-> 0]
    /\ Enter(RefreshMaxJobs, TRUE, RefreshMaxPages, TRUE)

AddError(r, e) == [r EXCEPT !.errors = Append(@, e)]

\* scrape_jobs: where it goes on after setup_driver returned ok
AfterSetupIgnoringResult(ok) == "load"

AfterSetup(ok) == IF ok THEN "load" ELSE "finally"

\* setup_driver and the branch of scrape_jobs on its result
SetupDriver ==
    /\ pc = "setup"
    /\ \/ \* the session starts and the webdriver property is removed
          /\ driver' = "open"
          /\ setupResult' = "ok"
          /\ pc' = AfterSetup(TRUE)
          /\ results' = results
          /\ NoFail
       \/ \* ChromeDriverManager().install() or webdriver.Chrome() raises
          /\ MayFail /\ Fail
          /\ driver' = driver
          /\ setupResult' = "failed"
          /\ pc' = AfterSetup(FALSE)
          /\ results' = AddError(results, "Failed to initialize WebDriver")
       \/ \* execute_script raises after self.driver was assigned
          /\ MayFail /\ Fail
          /\ driver' = "open"
          /\ setupResult' = "failed"
          /\ pc' = AfterSetup(FALSE)
          /\ results' = AddError(results, "Failed to initialize WebDriver")
    /\ UNCHANGED <<call, request, stub, shown, runs, max_jobs, max_jobs_is_int, max_pages,
                   scrape_details, page, all_jobs, page_num,
                   previous_job_count, no_change_count, jobs_to_process, idx,
                   job_details, jobs_saved, db, pagesProcessed, navCalls,
                   lastNav, detailStatus, lastSave, pageLoads, dbWrites,
                   useAfterClose>>

JobsToProcessOneMore(jobs, cap) ==
    IF cap > 0 THEN SubSeq(jobs, 1, Min(cap + 1, Len(jobs))) ELSE jobs

\* jobs[:max_jobs] if max_jobs > 0 else jobs
JobsToProcess(jobs, cap) ==
    IF cap > 0 THEN SubSeq(jobs, 1, Min(cap, Len(jobs))) ELSE jobs

\* a job loop whose body starts at the save
FirstStepOfJobIsSave == "save"

\* the body of "for i, job_info in enumerate(jobs_to_process, 1)" starts with
\* the detail fetch
FirstStepOfJob == "details"

\* extract_job_cards has returned jobs (its locals are gone): scrape_jobs up
\* to the job loop
ExtractReturned(jobs) ==
    /\ page' = << >>
    /\ all_jobs' = jobs
    /\ page_num' = 1
    /\ previous_job_count' = 0
    /\ no_change_count' = 0
    /\ IF jobs = << >>
       THEN /\ results' = AddError(results, "No jobs found on any pages")
            /\ pc' = "finally"
            /\ jobs_to_process' = << >>
       ELSE IF ~max_jobs_is_int
       THEN \* max_jobs > 0 raises TypeError: the except branch of scrape_jobs
            /\ results' = AddError(results, "Critical error during scraping")
            /\ pc' = "finally"
            /\ jobs_to_process' = << >>
       ELSE /\ results' = results
            /\ pc' = FirstStepOfJob
            /\ jobs_to_process' = JobsToProcess(jobs, max_jobs)
    /\ idx' = 1
    /\ jobs_saved' = 0

\* an except clause that returned what had been found
JobsAfterEscapeKept(jobs) == jobs

\* "except Exception as e: ... return []" of extract_job_cards, jobs being
\* all_jobs when the exception is raised
JobsAfterEscape(jobs) == << >>

\* extract_job_cards: self.driver.get(self.jobs_url)
LoadListing ==
    /\ pc = "load"
    /\ DriverCall
    /\ pageLoads' = pageLoads + 1
    /\ \/ /\ NoFail
          /\ shown' = IF stub = "free" THEN 0 ELSE 1
          /\ page' \in Rendered(stub, 1)
          /\ pc' = "page"
          /\ UNCHANGED <<results, jobs_to_process, idx, jobs_saved, all_jobs,
                         page_num, previous_job_count, no_change_count>>
       \/ \* driver.get raises: extract_job_cards returns []
          /\ MayFail /\ Fail
          /\ shown' = shown
          /\ ExtractReturned(JobsAfterEscape(all_jobs))
    /\ UNCHANGED <<call, request, stub, runs, driver, max_jobs, max_jobs_is_int, max_pages,
                   scrape_details, job_details, db, pagesProcessed, navCalls,
                   lastNav, detailStatus, lastSave, setupResult, dbWrites>>

----------------------------------------------------------------------------
(* extract_job_cards: the page loop *)

NoChangeLimit == 2

StopOnNoChangeAtOnce(count) == count >= 1

\* "if no_change_count >= 2: break"
StopOnNoChange(count) == count >= NoChangeLimit

\* the guard of "Try to navigate to next page"
MayNavigateInclusive(n, cap) == n <= cap

MayNavigate(n, cap) == n < cap

\* one iteration of "while page_num <= max_pages", up to the navigation call
ProcessPage ==
    /\ pc = "page"
    /\ DriverCall
    /\ \/ \* driver.page_source raises: extract_job_cards returns []
          /\ MayFail /\ Fail
          /\ ExtractReturned(JobsAfterEscape(all_jobs))
          /\ UNCHANGED pagesProcessed
       \/ /\ NoFail
          /\ LET job_cards == page
                 unchanged == Len(job_cards) = previous_job_count
                 count == IF unchanged THEN no_change_count + 1 ELSE 0
                 page_jobs == PageJobs(job_cards,
                                       StartIndex(page_num, all_jobs) + 1,
                                       all_jobs)
                 jobs == all_jobs \o page_jobs
             IN  IF page_num > max_pages
                 THEN \* the while condition fails
                      /\ ExtractReturned(all_jobs)
                      /\ UNCHANGED pagesProcessed
                 ELSE /\ pagesProcessed' = pagesProcessed + 1
                      /\ IF job_cards = << >> \/ (unchanged /\ StopOnNoChange(count))
                         THEN \* no job cards found, or the job count is
                              \* unchanged for two attempts
                              ExtractReturned(all_jobs)
                         ELSE IF page_jobs # << >> /\ MayNavigate(page_num, max_pages)
                         THEN /\ no_change_count' = count
                              /\ previous_job_count' = Len(job_cards)
                              /\ all_jobs' = jobs
                              /\ pc' = "nav"
                              /\ UNCHANGED <<page, page_num, results,
                                             jobs_to_process, idx, jobs_saved>>
                         ELSE \* no new jobs, or the page cap is reached
                              ExtractReturned(jobs)
    /\ UNCHANGED <<call, request, stub, shown, runs, driver, max_jobs, max_jobs_is_int,
                   max_pages, scrape_details, job_details, db,
                   navCalls, lastNav, detailStatus, lastSave, setupResult,
                   pageLoads, dbWrites>>

----------------------------------------------------------------------------
(* navigate_to_next_page *)

\* the text of the first card's job-title link, "" when there is none
Signature(cards) ==
    IF cards # << >> /\ cards[1].hasTitle THEN cards[1].title ELSE << >>

\* what the browser can show after a click on a pagination control
AfterClick(s, k, cards) ==
    IF s = "free" THEN PageContents
    ELSE IF k < Len(Script(s)) THEN {Script(s)[k + 1]} ELSE {cards}

\* the value navigate_to_next_page returns: control is the control it clicked
\* ("number", "chevron" or "none"), sigChanged whether the poll saw the first
\* job title change
NavResultTerminalOnStall(control, sigChanged) == control # "none" /\ sigChanged

NavResult(control, sigChanged) == control # "none"

NumberPolls == 10       \* "for wait_attempt in range(10)" after the page-number click
ChevronPolls == 8       \* "for wait_attempt in range(8)" after the chevron click
ChevronSelectors == 4   \* len(right_arrow_selectors)

PollBound(control) == IF control = "number" THEN NumberPolls ELSE ChevronPolls

\* the sets of chevron selectors that find a clickable button on a page
ChevronPool == {{}, {1}, {1, 3}} \cap SUBSET (1..ChevronSelectors)

\* the pagination controls a page can show: <<number, chevrons>>, number
\* telling whether an enabled button for current_page + 1 exists
Pagers == {<<TRUE, {1}>>} \cup {<<FALSE, c>> : c \in ChevronPool}

\* the poll at which the new content has rendered: the first or the last;
\* it is drawn only for a call that is observed in detail
PollLags(control) ==
    IF call.fn = "navigate_to_next_page" THEN {1, PollBound(control)} ELSE {1}

\* the polls made after a click: up to the one that sees the first job title
\* changed, otherwise all of them
PollsMade(control, sigChanged, k) ==
    IF sigChanged THEN Min(k, PollBound(control)) ELSE PollBound(control)

\* Method 1 before Method 2: the control clicked first
FirstControl(number, chevrons) ==
    IF number THEN "number" ELSE IF chevrons # {} THEN "chevron" ELSE "none"

\* the chevron selectors the loop still tries after "except: continue" left
\* selector s
LaterSelectors(chevrons, s) == {t \in chevrons : t > s}

FirstSelector(chevrons) == CHOOSE s \in chevrons : \A t \in chevrons : s <= t

\* navigate_to_next_page observed in detail: the controls clicked, in order,
\* and the polls made after the last click
NavWatch == [fn |-> "navigate_to_next_page", clicked |-> << >>, polls |-> 0]

Watched(clicked, polls) ==
    IF call.fn = "navigate_to_next_page"
    THEN [call EXCEPT !.clicked = clicked, !.polls = polls]
    ELSE call

Navigate ==
    /\ pc = "nav"
    /\ DriverCall
    /\ navCalls' = navCalls + 1
    /\ \/ \* the first find_elements raises: the outer except returns False
          /\ MayFail /\ Fail
          /\ lastNav' = [NoNav EXCEPT !.streak = lastNav.streak + 1,
                                      !.raised = TRUE]
          /\ call' = Watched(<< >>, 0)
          /\ ExtractReturned(all_jobs)
          /\ UNCHANGED shown
       \/ \* no driver call raises: the first control found is clicked and
          \* polled, or there is none and the end-of-results check follows
          /\ NoFail
          /\ \E pager \in Pagers :
                LET control == FirstControl(pager[1], pager[2])
                IN  \E cards \in (IF control = "none" THEN {}
                                  ELSE AfterClick(stub, shown, page)) \cup {page},
                       k \in PollLags(control) :
                       LET sigChanged == Signature(cards) # Signature(page)
                           result == NavResult(control, sigChanged)
                       IN  /\ lastNav' = [control |-> control,
                                          changed |-> cards # page,
                                          sigChanged |-> sigChanged,
                                          result |-> result,
                                          streak |-> IF sigChanged THEN 0
                                                     ELSE lastNav.streak + 1,
                                          clicks |-> IF control = "none" THEN 0 ELSE 1,
                                          raised |-> FALSE]
                           /\ call' = IF control = "none" THEN Watched(<< >>, 0)
                                      ELSE Watched(<<control>>,
                                                   PollsMade(control, sigChanged, k))
                           /\ shown' = IF stub # "free" /\ cards # page
                                       THEN shown + 1 ELSE shown
                           /\ IF result
                              THEN /\ page' = cards
                                   /\ page_num' = page_num + 1
                                   /\ pc' = "page"
                                   /\ UNCHANGED <<results, jobs_to_process, idx,
                                                  jobs_saved, all_jobs,
                                                  previous_job_count,
                                                  no_change_count>>
                              ELSE ExtractReturned(all_jobs)
       \/ \* a chevron is clicked and find_elements raises in its poll, outside
          \* the inner try: "except: continue" goes on with the next selector,
          \* which clicks again if it finds a clickable button; otherwise the
          \* end-of-results check follows and the call returns False
          /\ MayFail /\ Fail
          /\ \E chevrons \in ChevronPool \ {{}},
                cards \in AfterClick(stub, shown, page) \cup {page} :
                LET later == LaterSelectors(chevrons, FirstSelector(chevrons))
                    sigChanged == Signature(cards) # Signature(page)
                    result == NavResult(IF later # {} THEN "chevron" ELSE "none",
                                        sigChanged)
                IN  /\ lastNav' = [control |-> "chevron",
                                   changed |-> cards # page,
                                   sigChanged |-> sigChanged,
                                   result |-> result,
                                   streak |-> IF sigChanged THEN 0
                                              ELSE lastNav.streak + 1,
                                   clicks |-> IF later # {} THEN 2 ELSE 1,
                                   raised |-> TRUE]
                    /\ call' = IF later # {}
                               THEN Watched(<<"chevron", "chevron">>,
                                            PollsMade("chevron", sigChanged, 1))
                               ELSE Watched(<<"chevron">>, 1)
                    /\ shown' = IF stub # "free" /\ cards # page THEN shown + 1
                                ELSE shown
                    /\ IF result
                       THEN /\ page' = cards
                            /\ page_num' = page_num + 1
                            /\ pc' = "page"
                            /\ UNCHANGED <<results, jobs_to_process, idx,
                                           jobs_saved, all_jobs,
                                           previous_job_count, no_change_count>>
                       ELSE ExtractReturned(all_jobs)
    /\ UNCHANGED <<request, stub, runs, driver, max_jobs, max_jobs_is_int, max_pages,
                   scrape_details, job_details, db, pagesProcessed,
                   detailStatus, lastSave, setupResult, pageLoads, dbWrites>>

----------------------------------------------------------------------------
(* scrape_jobs: the job loop *)

\* what scrape_job_details returns: its dict, or the dict of its except branch
DetailsFetched == [present |-> TRUE, full_description |-> "full"]
DetailsFailed == [present |-> TRUE, full_description |-> ""]

\* job_details = {} unless details are wanted and the card has a detail link
FetchDetails ==
    /\ pc = "details"
    /\ LET job_info == jobs_to_process[idx]
       IN  IF scrape_details /\ job_info.view_details_url # ""
           THEN /\ DriverCall
                /\ pageLoads' = pageLoads + 1
                /\ \/ /\ NoFail
                      /\ job_details' = DetailsFetched
                      /\ detailStatus' = "ok"
                   \/ \* driver.get or the parsing raises inside scrape_job_details
                      /\ MayFail /\ Fail
                      /\ job_details' = DetailsFailed
                      /\ detailStatus' = "failed"
           ELSE /\ job_details' = NoDetails
                /\ detailStatus' = "none"
                /\ NoFail
                /\ UNCHANGED <<pageLoads, useAfterClose>>
    /\ pc' = "save"
    /\ UNCHANGED <<call, request, stub, shown, runs, driver, max_jobs, max_jobs_is_int,
                   max_pages, scrape_details, page, all_jobs, page_num,
                   previous_job_count, no_change_count, jobs_to_process, idx,
                   jobs_saved, db, results, pagesProcessed, navCalls, lastNav,
                   lastSave, setupResult, dbWrites>>

HasRecord(rows, job_info) ==
    \E k \in 1..Len(rows) :
        rows[k].role = job_info.title /\ rows[k].company_name = job_info.company

\* a results.update(...) that counts every processed job as saved
FinishedCountingEveryJob(r, saved, processed, jobs, cap) ==
    [r EXCEPT !.success = TRUE,
              !.jobs_scraped = Len(processed),
              !.jobs_saved = Len(processed),
              !.pages_scraped = Min(cap, (Len(jobs) \div JobsPerPageEstimate) + 1)]

\* results.update(...) after the job loop
Finished(r, saved, processed, jobs, cap) ==
    [r EXCEPT !.success = TRUE,
              !.jobs_scraped = Len(processed),
              !.jobs_saved = saved,
              !.pages_scraped = Min(cap, (Len(jobs) \div JobsPerPageEstimate) + 1)]

\* save_job_to_database for the current job, then the next job or the end
SaveJob ==
    /\ pc = "save"
    /\ LET job_info == jobs_to_process[idx]
           fields == JobFields(job_info, job_details)
           r == UpdateOrCreate(db, fields.external_id, fields)
       IN  \E ok \in {r.ok, FALSE} :
              /\ IF ok = r.ok THEN NoFail ELSE MayFail /\ Fail
              /\ db' = IF ok THEN r.rows ELSE db
              /\ dbWrites' = IF ok THEN dbWrites + 1 ELSE dbWrites
              /\ lastSave' = [called |-> TRUE,
                              job |-> job_info,
                              ok |-> ok,
                              created |-> ok /\ r.created,
                              existed |-> HasRecord(db, job_info),
                              detail |-> detailStatus,
                              row |-> fields]
              /\ jobs_saved' = IF ok THEN jobs_saved + 1 ELSE jobs_saved
              /\ IF idx < Len(jobs_to_process)
                 THEN /\ idx' = idx + 1
                      /\ pc' = FirstStepOfJob
                      /\ results' = results
                 ELSE /\ idx' = idx
                      /\ pc' = "finally"
                      /\ results' = Finished(results, jobs_saved', jobs_to_process,
                                             all_jobs, max_pages)
    /\ UNCHANGED <<call, request, stub, shown, runs, driver, max_jobs, max_jobs_is_int,
                   max_pages, scrape_details, page, all_jobs, page_num,
                   previous_job_count, no_change_count, jobs_to_process,
                   job_details, pagesProcessed, navCalls, lastNav,
                   detailStatus, setupResult, pageLoads, useAfterClose>>

----------------------------------------------------------------------------
(* close_driver, in the finally clause of scrape_jobs *)

QuitSessionSkipped(d) == d

\* if self.driver: self.driver.quit()
QuitSession(d) == IF d # "none" THEN "closed" ELSE d

\* how the call ends when driver.quit() raised, were the exception not caught
CloseDriverOutcomeUncaught(quitRaised) ==
    IF quitRaised THEN "raised" ELSE "returned"

\* how the call ends: close_driver logs what driver.quit() raises, and
\* scrape_jobs goes on to "return results"
CloseDriverOutcome(quitRaised) == "returned"

\* the HTTP status a view answers with once scrape_jobs has returned
Answered(req, r) ==
    CASE req.via = "scrape_devsunite" ->
            [req EXCEPT !.status = IF r.success THEN 200 ELSE 500]
      [] req.via \in {"refresh", "scrapejobs"} -> [req EXCEPT !.status = 200]
      [] OTHER -> req

CloseDriver ==
    /\ pc = "finally"
    /\ driver' = QuitSession(driver)
    /\ \/ /\ NoFail
          /\ pc' = CloseDriverOutcome(FALSE)
       \/ \* driver.quit() raises: logged by close_driver
          /\ driver # "none"
          /\ MayFail /\ Fail
          /\ pc' = CloseDriverOutcome(TRUE)
    /\ request' = IF pc' = "returned" THEN Answered(request, results) ELSE request
    /\ UNCHANGED <<call, stub, shown, runs, max_jobs, max_jobs_is_int, max_pages,
                   scrape_details, page, all_jobs, page_num,
                   previous_job_count, no_change_count, jobs_to_process, idx,
                   job_details, jobs_saved, db, results, pagesProcessed,
                   navCalls, lastNav, detailStatus, lastSave, setupResult,
                   pageLoads, dbWrites, useAfterClose>>

----------------------------------------------------------------------------
(* Text as the string functions see it: a sequence of characters, each a    *)
(* one-character string; the rupee sign U+20B9 is written "u20B9" and the   *)
(* characters U+201A, U+00C7, U+03C0 "u201A", "u00C7", "u03C0".             *)

UpperCase == <<"A","B","C","D","E","F","G","H","I","J","K","L","M",
               "N","O","P","Q","R","S","T","U","V","W","X","Y","Z">>
LowerCase == <<"a","b","c","d","e","f","g","h","i","j","k","l","m",
               "n","o","p","q","r","s","t","u","v","w","x","y","z">>
DigitChars == <<"0","1","2","3","4","5","6","7","8","9">>

Range(f) == {f[i] : i \in DOMAIN f}
Digits == Range(DigitChars)
Whitespace == {" "}

IndexIn(f, c) == CHOOSE i \in DOMAIN f : f[i] = c

\* str.lower(), character by character
LowerChar(c) ==
    CASE c \in Range(UpperCase) -> LowerCase[IndexIn(UpperCase, c)]
      [] c = "u00C7" -> "u00E7"
      [] OTHER -> c

Lower(s) == [i \in 1..Len(s) |-> LowerChar(s[i])]

\* pat occurs in s at index i
OccursAt(s, i, pat) ==
    /\ i >= 1
    /\ i + Len(pat) - 1 <= Len(s)
    /\ \A k \in 1..Len(pat) : s[i + k - 1] = pat[k]

\* str.replace(pat, ''): the occurrences of pat, left to right and without
\* overlap, are removed
RECURSIVE RemoveFrom(_, _, _)
RemoveFrom(s, i, pat) ==
    IF i > Len(s) THEN << >>
    ELSE IF OccursAt(s, i, pat) THEN RemoveFrom(s, i + Len(pat), pat)
    ELSE <<s[i]>> \o RemoveFrom(s, i + 1, pat)

Remove(s, pat) == RemoveFrom(s, 1, pat)

\* str.strip()
RECURSIVE Strip(_)
Strip(s) ==
    IF s = << >> THEN s
    ELSE IF s[1] \in Whitespace THEN Strip(Tail(s))
    ELSE IF s[Len(s)] \in Whitespace THEN Strip(SubSeq(s, 1, Len(s) - 1))
    ELSE s

\* the index after the longest run of characters of set that starts at i
RECURSIVE RunEnd(_, _, _)
RunEnd(s, i, set) ==
    IF i <= Len(s) /\ s[i] \in set THEN RunEnd(s, i + 1, set) ELSE i

\* the index after an optional literal at i
After(s, i, lit) == IF OccursAt(s, i, lit) THEN i + Len(lit) ELSE i

----------------------------------------------------------------------------
(* parse_compensation *)

\* the group (\d+(?:\.\d+)?) matched at i: the index after it, 0 for no match
NumberEnd(s, i) ==
    LET d == RunEnd(s, i, Digits)
        f == RunEnd(s, d + 1, Digits)
    IN  IF d = i THEN 0
        ELSE IF OccursAt(s, d, <<".">>) /\ f > d + 1 THEN f
        ELSE d

NoMatch == << >>

\* r'(\d+(?:\.\d+)?)\s*[-to]+\s*(\d+(?:\.\d+)?)' matched at i: the bounds of
\* its two groups. Neighbouring items of the pattern accept disjoint
\* characters, so the greedy match is the only one from i.
RangeDashesAt(s, i) ==
    LET n1 == NumberEnd(s, i)
        a == RunEnd(s, n1, Whitespace)
        b == RunEnd(s, a, {"-", "t", "o"})
        c == RunEnd(s, b, Whitespace)
        n2 == NumberEnd(s, c)
    IN  IF n1 # 0 /\ b > a /\ n2 # 0 THEN <<i, n1, c, n2>> ELSE NoMatch

\* r'(\d+(?:\.\d+)?)\s*-\s*(\d+(?:\.\d+)?)'
RangeDashAt(s, i) ==
    LET n1 == NumberEnd(s, i)
        a == RunEnd(s, n1, Whitespace)
        c == RunEnd(s, a + 1, Whitespace)
        n2 == NumberEnd(s, c)
    IN  IF n1 # 0 /\ OccursAt(s, a, <<"-">>) /\ n2 # 0
        THEN <<i, n1, c, n2>> ELSE NoMatch

\* r'between\s+(\d+(?:\.\d+)?)\s+and\s+(\d+(?:\.\d+)?)'
RangeBetweenAt(s, i) ==
    LET w == i + 7
        a == RunEnd(s, w, Whitespace)
        n1 == NumberEnd(s, a)
        b == RunEnd(s, n1, Whitespace)
        c == RunEnd(s, b + 3, Whitespace)
        n2 == NumberEnd(s, c)
    IN  IF /\ OccursAt(s, i, <<"b","e","t","w","e","e","n">>)
           /\ a > w /\ n1 # 0 /\ b > n1
           /\ OccursAt(s, b, <<"a","n","d">>)
           /\ c > b + 3 /\ n2 # 0
        THEN <<a, n1, c, n2>> ELSE NoMatch

\* r'(\d+(?:\.\d+)?)\s*l?pa?': the "p" is not optional
SinglePaAt(s, i) ==
    LET n1 == NumberEnd(s, i)
        a == RunEnd(s, n1, Whitespace)
        l == After(s, a, <<"l">>)
    IN  IF n1 # 0 /\ OccursAt(s, l, <<"p">>) THEN <<i, n1>> ELSE NoMatch

\* the rupee sign as the source file spells it
RupeeLiteral == <<"u201A", "u00C7", "u03C0">>

\* RupeeLiteral, then r'\s*(\d+(?:\.\d+)?)'
SingleRupeeAt(s, i) ==
    LET a == RunEnd(s, i + Len(RupeeLiteral), Whitespace)
        n1 == NumberEnd(s, a)
    IN  IF OccursAt(s, i, RupeeLiteral) /\ n1 # 0 THEN <<a, n1>> ELSE NoMatch

\* r'(\d+(?:\.\d+)?)\s*lakhs?'
SingleLakhAt(s, i) ==
    LET n1 == NumberEnd(s, i)
        a == RunEnd(s, n1, Whitespace)
    IN  IF n1 # 0 /\ OccursAt(s, a, <<"l","a","k","h">>) THEN <<i, n1>> ELSE NoMatch

RangePatterns == <<"dashes", "dash", "between">>
SinglePatterns == <<"pa", "rupee", "lakh">>

MatchAt(pattern, s, i) ==
    CASE pattern = "dashes" -> RangeDashesAt(s, i)
      [] pattern = "dash" -> RangeDashAt(s, i)
      [] pattern = "between" -> RangeBetweenAt(s, i)
      [] pattern = "pa" -> SinglePaAt(s, i)
      [] pattern = "rupee" -> SingleRupeeAt(s, i)
      [] pattern = "lakh" -> SingleLakhAt(s, i)

\* m if it is a match, otherwise rest
OrElse(m, rest) == IF m # NoMatch THEN m ELSE rest

\* re.search from index i on: the match at the leftmost index that has one
RECURSIVE SearchFrom(_, _, _)
SearchFrom(pattern, s, i) ==
    IF i > Len(s) THEN NoMatch
    ELSE OrElse(MatchAt(pattern, s, i), SearchFrom(pattern, s, i + 1))

Search(pattern, s) == SearchFrom(pattern, s, 1)

RECURSIVE DigitsValue(_)
DigitsValue(s) ==
    IF s = << >> THEN 0
    ELSE 10 * DigitsValue(SubSeq(s, 1, Len(s) - 1)) + (IndexIn(DigitChars, s[Len(s)]) - 1)

RECURSIVE Pow10(_)
Pow10(k) == IF k = 0 THEN 1 ELSE 10 * Pow10(k - 1)

LakhInRupees == 100000

\* Decimal(group) * 100000 for the group s[from .. to - 1]; the texts of the
\* model have at most five decimals, so the product is a whole number
InRupees(s, from, to) ==
    LET d == RunEnd(s, from, Digits)
        whole == DigitsValue(SubSeq(s, from, d - 1))
        frac == SubSeq(s, d + 1, to - 1)
    IN  IF d = to THEN whole * LakhInRupees
        ELSE whole * LakhInRupees + DigitsValue(frac) * Pow10(5 - Len(frac))

\* what parse_compensation hands back: a pair, (None, None), or an exception
Salaries(lo, hi) == [raised |-> FALSE, some |-> TRUE, min |-> lo, max |-> hi]
NoSalaries == [raised |-> FALSE, some |-> FALSE, min |-> 0, max |-> 0]
Raised == [raised |-> TRUE, some |-> FALSE, min |-> 0, max |-> 0]

\* an argument: None, or a text
NoneArg == [none |-> TRUE, text |-> << >>]
TextArg(t) == [none |-> FALSE, text |-> t]

IsFalsyEmptyOnly(arg) == ~arg.none /\ arg.text = << >>

\* "not compensation_text"
IsFalsy(arg) == arg.none \/ arg.text = << >>

\* the first pattern of the list, from k on, that matches comp
RECURSIVE FirstMatch(_, _, _)
FirstMatch(patterns, k, comp) ==
    IF k > Len(patterns) THEN NoMatch
    ELSE OrElse(Search(patterns[k], comp), FirstMatch(patterns, k + 1, comp))

\* views.py:1405: lower(), then 'lpa', the rupee literal and ',' removed, strip()
Cleaned(text) ==
    Strip(Remove(Remove(Remove(Lower(text), <<"l","p","a">>), RupeeLiteral), <<",">>))

\* the amounts of a range match, else those of a single match, else none
Amounts(comp, range, single) ==
    IF range # NoMatch
    THEN Salaries(InRupees(comp, range[1], range[2]),
                  InRupees(comp, range[3], range[4]))
    ELSE IF single # NoMatch
    THEN Salaries(InRupees(comp, single[1], single[2]),
                  InRupees(comp, single[1], single[2]))
    ELSE NoSalaries

ParseCleaned(comp) ==
    Amounts(comp, FirstMatch(RangePatterns, 1, comp),
                  FirstMatch(SinglePatterns, 1, comp))

parse_compensation(arg) ==
    IF IsFalsy(arg) THEN NoSalaries
    ELSE IF arg.none THEN Raised   \* None has no lower()
    ELSE ParseCleaned(Cleaned(arg.text))

----------------------------------------------------------------------------
(* The skill functions. Their word tables are copied from the source.       *)

known_techs ==
    <<
     <<"A","I","/","M","L">>, <<"A","I">>, <<"M","L">>,
     <<"M","a","c","h","i","n","e"," ","L","e","a","r","n","i","n","g">>,
     <<"D","e","e","p"," ","L","e","a","r","n","i","n","g">>, <<"L","L","M","s">>, <<"L","L","M">>,
     <<"T","e","n","s","o","r","F","l","o","w">>, <<"P","y","T","o","r","c","h">>,
     <<"S","c","i","k","i","t","-","l","e","a","r","n">>, <<"P","a","n","d","a","s">>,
     <<"N","u","m","P","y">>, <<"J","a","v","a","S","c","r","i","p","t">>,
     <<"T","y","p","e","S","c","r","i","p","t">>, <<"P","y","t","h","o","n">>, <<"J","a","v","a">>,
     <<"C","+","+">>, <<"C","#">>, <<"P","H","P">>, <<"R","u","b","y">>, <<"G","o">>,
     <<"R","u","s","t">>, <<"S","w","i","f","t">>, <<"K","o","t","l","i","n">>,
     <<"S","c","a","l","a">>, <<"R">>, <<"M","A","T","L","A","B">>,
     <<"R","e","a","c","t",".","j","s">>, <<"R","e","a","c","t">>, <<"A","n","g","u","l","a","r">>,
     <<"V","u","e",".","j","s">>, <<"V","u","e">>, <<"N","e","x","t",".","j","s">>,
     <<"N","u","x","t",".","j","s">>, <<"N","o","d","e",".","j","s">>,
     <<"E","x","p","r","e","s","s",".","j","s">>, <<"E","x","p","r","e","s","s">>,
     <<"S","v","e","l","t","e">>, <<"j","Q","u","e","r","y">>, <<"H","T","M","L","5">>,
     <<"H","T","M","L">>, <<"C","S","S","3">>, <<"C","S","S">>, <<"S","A","S","S">>,
     <<"S","C","S","S">>, <<"B","o","o","t","s","t","r","a","p">>,
     <<"T","a","i","l","w","i","n","d">>, <<"M","a","t","e","r","i","a","l","-","U","I">>,
     <<"A","n","t"," ","D","e","s","i","g","n">>, <<"C","h","a","k","r","a"," ","U","I">>,
     <<"D","j","a","n","g","o">>, <<"F","l","a","s","k">>, <<"F","a","s","t","A","P","I">>,
     <<"S","p","r","i","n","g"," ","B","o","o","t">>, <<"S","p","r","i","n","g">>,
     <<"L","a","r","a","v","e","l">>, <<"R","u","b","y"," ","o","n"," ","R","a","i","l","s">>,
     <<"A","S","P",".","N","E","T">>, <<"S","y","m","f","o","n","y">>, <<"K","o","a",".","j","s">>,
     <<"P","o","s","t","g","r","e","S","Q","L">>, <<"M","y","S","Q","L">>,
     <<"M","o","n","g","o","D","B">>, <<"R","e","d","i","s">>, <<"S","Q","L","i","t","e">>,
     <<"O","r","a","c","l","e">>, <<"S","Q","L"," ","S","e","r","v","e","r">>,
     <<"D","y","n","a","m","o","D","B">>, <<"C","a","s","s","a","n","d","r","a">>,
     <<"E","l","a","s","t","i","c","s","e","a","r","c","h">>, <<"N","e","o","4","j">>,
     <<"A","W","S">>, <<"A","z","u","r","e">>, <<"G","C","P">>,
     <<"G","o","o","g","l","e"," ","C","l","o","u","d">>, <<"D","o","c","k","e","r">>,
     <<"K","u","b","e","r","n","e","t","e","s">>, <<"J","e","n","k","i","n","s">>,
     <<"G","i","t","L","a","b"," ","C","I">>,
     <<"G","i","t","H","u","b"," ","A","c","t","i","o","n","s">>,
     <<"T","e","r","r","a","f","o","r","m">>, <<"A","n","s","i","b","l","e">>,
     <<"V","a","g","r","a","n","t">>, <<"G","i","t">>, <<"G","i","t","H","u","b">>,
     <<"G","i","t","L","a","b">>, <<"B","i","t","b","u","c","k","e","t">>, <<"J","I","R","A">>,
     <<"C","o","n","f","l","u","e","n","c","e">>, <<"V","S"," ","C","o","d","e">>,
     <<"I","n","t","e","l","l","i","J">>, <<"E","c","l","i","p","s","e">>,
     <<"P","o","s","t","m","a","n">>, <<"S","w","a","g","g","e","r">>,
     <<"G","r","a","p","h","Q","L">>, <<"R","E","S","T"," ","A","P","I">>, <<"R","E","S","T">>,
     <<"g","R","P","C">>, <<"J","S","O","N">>, <<"X","M","L">>, <<"S","O","A","P">>,
     <<"J","e","s","t">>, <<"M","o","c","h","a">>, <<"S","e","l","e","n","i","u","m">>,
     <<"C","y","p","r","e","s","s">>, <<"J","U","n","i","t">>, <<"P","y","T","e","s","t">>,
     <<"U","n","i","t"," ","T","e","s","t","i","n","g">>,
     <<"I","n","t","e","g","r","a","t","i","o","n"," ","T","e","s","t","i","n","g">>,
     <<"T","D","D">>, <<"B","D","D">>, <<"R","e","a","c","t"," ","N","a","t","i","v","e">>,
     <<"F","l","u","t","t","e","r">>, <<"i","O","S">>, <<"A","n","d","r","o","i","d">>,
     <<"X","a","m","a","r","i","n">>, <<"I","o","n","i","c">>, <<"W","e","b","p","a","c","k">>,
     <<"B","a","b","e","l">>, <<"V","i","t","e">>, <<"P","a","r","c","e","l">>,
     <<"R","o","l","l","u","p">>, <<"G","r","u","n","t">>, <<"G","u","l","p">>,
     <<"A","g","i","l","e">>, <<"S","c","r","u","m">>, <<"K","a","n","b","a","n">>,
     <<"D","e","v","O","p","s">>, <<"C","I","/","C","D">>>>

clean_skills ==
    {
     <<"p","y","t","h","o","n">>, <<"j","a","v","a">>, <<"j","a","v","a","s","c","r","i","p","t">>,
     <<"t","y","p","e","s","c","r","i","p","t">>, <<"r","e","a","c","t">>,
     <<"a","n","g","u","l","a","r">>, <<"v","u","e">>, <<"n","o","d","e",".","j","s">>,
     <<"e","x","p","r","e","s","s">>, <<"d","j","a","n","g","o">>, <<"f","l","a","s","k">>,
     <<"s","p","r","i","n","g">>, <<"h","t","m","l">>, <<"c","s","s">>,
     <<"p","o","s","t","g","r","e","s","q","l">>, <<"m","y","s","q","l">>,
     <<"m","o","n","g","o","d","b">>, <<"r","e","d","i","s">>, <<"g","i","t">>,
     <<"d","o","c","k","e","r">>, <<"k","u","b","e","r","n","e","t","e","s">>, <<"a","w","s">>,
     <<"a","z","u","r","e">>, <<"g","c","p">>, <<"g","r","a","p","h","q","l">>,
     <<"r","e","s","t">>, <<"a","p","i">>, <<"j","s","o","n">>, <<"x","m","l">>,
     <<"b","o","o","t","s","t","r","a","p">>, <<"t","a","i","l","w","i","n","d">>,
     <<"s","a","s","s">>, <<"s","c","s","s">>, <<"w","e","b","p","a","c","k">>,
     <<"b","a","b","e","l">>, <<"j","u","n","i","t">>, <<"j","e","s","t">>,
     <<"m","o","c","h","a">>, <<"c","y","p","r","e","s","s">>, <<"s","e","l","e","n","i","u","m">>,
     <<"j","e","n","k","i","n","s">>, <<"g","i","t","l","a","b">>, <<"g","i","t","h","u","b">>}

tech_indicators ==
    {
     <<"p","y","t","h","o","n">>, <<"j","a","v","a">>, <<"j","a","v","a","s","c","r","i","p","t">>,
     <<"r","e","a","c","t">>, <<"n","o","d","e">>, <<"s","q","l">>, <<"h","t","m","l">>,
     <<"c","s","s">>, <<"a","w","s">>, <<"d","o","c","k","e","r">>,
     <<"k","u","b","e","r","n","e","t","e","s">>, <<"g","i","t">>, <<"a","p","i">>,
     <<"r","e","s","t">>, <<"g","r","a","p","h","q","l">>, <<"m","o","n","g","o","d","b">>,
     <<"p","o","s","t","g","r","e","s","q","l">>, <<"m","y","s","q","l">>, <<"r","e","d","i","s">>,
     <<"d","j","a","n","g","o">>, <<"f","l","a","s","k">>, <<"a","n","g","u","l","a","r">>,
     <<"v","u","e">>, <<"t","y","p","e","s","c","r","i","p","t">>, <<"g","o">>,
     <<"r","u","s","t">>, <<"s","w","i","f","t">>, <<"k","o","t","l","i","n">>,
     <<"m","a","c","h","i","n","e"," ","l","e","a","r","n","i","n","g">>, <<"a","i">>,
     <<"d","a","t","a"," ","s","c","i","e","n","c","e">>, <<"d","e","v","o","p","s">>,
     <<"c","i","/","c","d">>, <<"a","g","i","l","e">>, <<"s","c","r","u","m">>,
     <<"j","e","n","k","i","n","s">>, <<"t","e","r","r","a","f","o","r","m">>,
     <<"a","n","s","i","b","l","e">>}

non_skill_words ==
    {
     <<"t","h","e">>, <<"a","n","d">>, <<"o","r">>, <<"i","n">>, <<"o","n">>, <<"a","t">>,
     <<"t","o">>, <<"f","o","r">>, <<"w","i","t","h">>, <<"o","f">>, <<"i","s">>, <<"a","r","e">>,
     <<"b","e">>, <<"h","a","v","e">>, <<"h","a","s">>, <<"w","i","l","l">>, <<"c","a","n">>,
     <<"m","u","s","t">>, <<"s","h","o","u","l","d">>, <<"y","e","a","r","s">>,
     <<"e","x","p","e","r","i","e","n","c","e">>, <<"k","n","o","w","l","e","d","g","e">>,
     <<"s","k","i","l","l","s">>, <<"a","b","i","l","i","t","y">>,
     <<"b","a","c","h","e","l","o","r">>, <<"d","e","g","r","e","e">>,
     <<"c","e","r","t","i","f","i","c","a","t","i","o","n">>, <<"l","o","c","a","t","i","o","n">>,
     <<"s","a","l","a","r","y">>, <<"r","e","m","o","t","e">>, <<"j","o","b">>,
     <<"p","o","s","i","t","i","o","n">>, <<"r","o","l","e">>, <<"c","o","m","p","a","n","y">>,
     <<"t","e","a","m">>, <<"w","o","r","k">>, <<"c","a","n","d","i","d","a","t","e">>}

invalid_indicators ==
    {
     <<"y","e","a","r","s">>, <<"d","e","g","r","e","e">>, <<"b","a","c","h","e","l","o","r">>,
     <<"m","a","s","t","e","r">>, <<"p","h","d">>,
     <<"c","e","r","t","i","f","i","c","a","t","i","o","n">>, <<"s","a","l","a","r","y">>,
     <<"l","o","c","a","t","i","o","n">>, <<"r","e","m","o","t","e">>,
     <<"f","u","l","l"," ","t","i","m","e">>, <<"p","a","r","t"," ","t","i","m","e">>,
     <<"w","e"," ","a","r","e">>, <<"y","o","u"," ","w","i","l","l">>,
     <<"t","h","e"," ","i","d","e","a","l">>, <<"c","a","n","d","i","d","a","t","e">>,
     <<"a","p","p","l","i","c","a","n","t">>, <<"c","o","m","p","a","n","y">>, <<"t","e","a","m">>,
     <<"r","o","l","e">>, <<"p","o","s","i","t","i","o","n">>, <<"j","o","b">>,
     <<"w","o","r","k">>, <<"e","m","a","i","l">>, <<"p","h","o","n","e">>,
     <<"c","o","n","t","a","c","t">>, <<"a","p","p","l","y">>, <<"s","e","n","d">>,
     <<"r","e","s","u","m","e">>, <<"p","r","i","v","a","c","y"," ","p","o","l","i","c","y">>,
     <<"t","e","r","m","s"," ","o","f"," ","s","e","r","v","i","c","e">>,
     <<"c","o","o","k","i","e"," ","p","o","l","i","c","y">>,
     <<"r","i","g","h","t","s"," ","r","e","s","e","r","v","e","d">>,
     <<"a","l","l"," ","r","i","g","h","t","s">>, <<"c","o","p","y","r","i","g","h","t">>,
     <<"i","n","c",".">>, <<"m","a","d","e"," ","w","i","t","h">>,
     <<"p","o","w","e","r","e","d"," ","b","y">>, <<"a","b","o","u","t"," ","u","s">>,
     <<"c","o","n","t","a","c","t"," ","u","s">>, <<"s","i","g","n"," ","u","p">>,
     <<"l","o","g"," ","i","n">>, <<"l","o","g","i","n">>, <<"r","e","g","i","s","t","e","r">>,
     <<"h","o","m","e">>, <<"b","a","c","k">>, <<"n","e","x","t">>,
     <<"p","r","e","v","i","o","u","s">>, <<"m","o","r","e"," ","i","n","f","o">>,
     <<"l","e","a","r","n"," ","m","o","r","e">>, <<"r","e","a","d"," ","m","o","r","e">>}

ui_terms ==
    {
     <<"h","o","m","e">>, <<"a","b","o","u","t">>, <<"c","o","n","t","a","c","t">>,
     <<"l","o","g","i","n">>, <<"s","i","g","n","u","p">>, <<"d","a","s","h","b","o","a","r","d">>,
     <<"p","r","o","f","i","l","e">>, <<"s","e","t","t","i","n","g","s">>, <<"h","e","l","p">>,
     <<"s","u","p","p","o","r","t">>, <<"f","a","q">>, <<"b","l","o","g">>,
     <<"c","a","r","e","e","r","s">>, <<"n","e","w","s">>, <<"e","v","e","n","t","s">>,
     <<"s","e","r","v","i","c","e","s">>, <<"p","r","o","d","u","c","t","s">>,
     <<"s","o","l","u","t","i","o","n","s">>, <<"p","r","i","c","i","n","g">>,
     <<"p","l","a","n","s">>, <<"f","e","a","t","u","r","e","s">>,
     <<"b","e","n","e","f","i","t","s">>}

common_words ==
    {
     <<"t","h","e">>, <<"a","n","d">>, <<"o","r">>, <<"i","n">>, <<"o","n">>, <<"a","t">>,
     <<"t","o">>, <<"f","o","r">>, <<"w","i","t","h">>, <<"o","f">>, <<"i","s">>, <<"a","r","e">>,
     <<"b","e">>, <<"h","a","v","e">>, <<"h","a","s">>}

prefixes ==
    <<
     <<"s","t","r","o","n","g"," ">>, <<"g","o","o","d"," ">>,
     <<"e","x","c","e","l","l","e","n","t"," ">>, <<"s","o","l","i","d"," ">>,
     <<"p","r","o","v","e","n"," ">>, <<"e","x","t","e","n","s","i","v","e"," ">>>>

suffixes ==
    <<
     <<" ","e","x","p","e","r","i","e","n","c","e">>, <<" ","s","k","i","l","l","s">>,
     <<" ","k","n","o","w","l","e","d","g","e">>,
     <<" ","p","r","o","f","i","c","i","e","n","c","y">>>>

tech_capitalizations ==
    <<
     <<<<"j","a","v","a","s","c","r","i","p","t">>, <<"J","a","v","a","S","c","r","i","p","t">>>>,
     <<<<"t","y","p","e","s","c","r","i","p","t">>, <<"T","y","p","e","S","c","r","i","p","t">>>>,
     <<<<"n","o","d","e","j","s">>, <<"N","o","d","e",".","j","s">>>>,
     <<<<"r","e","a","c","t","j","s">>, <<"R","e","a","c","t",".","j","s">>>>,
     <<<<"v","u","e","j","s">>, <<"V","u","e",".","j","s">>>>,
     <<<<"a","n","g","u","l","a","r","j","s">>, <<"A","n","g","u","l","a","r",".","j","s">>>>,
     <<<<"c","s","s","3">>, <<"C","S","S","3">>>>,
     <<<<"h","t","m","l","5">>, <<"H","T","M","L","5">>>>,
     <<<<"m","y","s","q","l">>, <<"M","y","S","Q","L">>>>,
     <<<<"p","o","s","t","g","r","e","s","q","l">>, <<"P","o","s","t","g","r","e","S","Q","L">>>>,
     <<<<"m","o","n","g","o","d","b">>, <<"M","o","n","g","o","D","B">>>>,
     <<<<"g","r","a","p","h","q","l">>, <<"G","r","a","p","h","Q","L">>>>,
     <<<<"r","e","s","t","f","u","l">>, <<"R","E","S","T","f","u","l">>>>,
     <<<<"a","p","i">>, <<"A","P","I">>>>, <<<<"a","w","s">>, <<"A","W","S">>>>,
     <<<<"g","c","p">>, <<"G","C","P">>>>, <<<<"a","i">>, <<"A","I">>>>,
     <<<<"m","l">>, <<"M","L">>>>, <<<<"c","i","/","c","d">>, <<"C","I","/","C","D">>>>>>

IsAlpha(c) == c \in Range(UpperCase) \cup Range(LowerCase)

\* \w of the re module
IsWordChar(c) == IsAlpha(c) \/ c \in Digits \/ c = "_"

UpperChar(c) ==
    IF c \in Range(LowerCase) THEN UpperCase[IndexIn(LowerCase, c)] ELSE c

\* "pat in s"
Occurs(pat, s) == \E i \in 1..(Len(s) - Len(pat) + 1) : OccursAt(s, i, pat)

\* s.find(pat), counted from 1, for a pat that occurs in s
Find(s, pat) ==
    CHOOSE i \in 1..Len(s) :
        OccursAt(s, i, pat) /\ \A j \in 1..(i - 1) : ~OccursAt(s, j, pat)

StartsWith(s, pat) == OccursAt(s, 1, pat)
EndsWith(s, pat) == Len(pat) <= Len(s) /\ OccursAt(s, Len(s) - Len(pat) + 1, pat)

\* re.sub(r'\s+', ' ', s)
RECURSIVE CollapseSpaces(_)
CollapseSpaces(s) ==
    IF s = << >> THEN s
    ELSE IF s[1] \in Whitespace
    THEN <<" ">> \o CollapseSpaces(SubSeq(s, RunEnd(s, 1, Whitespace), Len(s)))
    ELSE <<s[1]>> \o CollapseSpaces(Tail(s))

\* s.split(): the words between runs of whitespace
RECURSIVE WordsFrom(_, _)
WordsFrom(s, i) ==
    LET a == RunEnd(s, i, Whitespace)
        b == CHOOSE j \in a..(Len(s) + 1) :
                /\ j > Len(s) \/ s[j] \in Whitespace
                /\ \A k \in a..(j - 1) : s[k] \notin Whitespace
    IN  IF a > Len(s) THEN << >>
        ELSE <<SubSeq(s, a, b - 1)>> \o WordsFrom(s, b)

Words(s) == WordsFrom(s, 1)

Count(f, S) == Cardinality({i \in DOMAIN f : f[i] \in S})

HasDigit(s) == \E i \in 1..Len(s) : s[i] \in Digits

\* str.isupper(): some cased character, and none of them lower case
IsUpper(s) ==
    /\ \E i \in 1..Len(s) : IsAlpha(s[i])
    /\ \A i \in 1..Len(s) : s[i] \notin Range(LowerCase)

\* str.title(): every run of letters starts upper case and goes on lower case
Title(s) ==
    [i \in 1..Len(s) |->
        IF ~IsAlpha(s[i]) THEN s[i]
        ELSE IF i = 1 \/ ~IsAlpha(s[i - 1]) THEN UpperChar(s[i])
        ELSE LowerChar(s[i])]

_looks_like_skill(text) ==
    LET t == Lower(Strip(text))
        words == Words(t)
    IN  IF text = << >> \/ Len(Strip(text)) < 2 THEN FALSE
        ELSE IF Len(t) > 50 \/ Len(t) < 2 THEN FALSE
        ELSE IF \E indicator \in tech_indicators : Occurs(indicator, t) THEN TRUE
        ELSE Len(words) <= 3 /\ Count(words, non_skill_words) = 0

_is_valid_skill(skill_text) ==
    LET skill == Lower(Strip(skill_text))
        words == Words(skill)
    IN  IF skill_text = << >> \/ Len(Strip(skill_text)) < 2 THEN FALSE
        ELSE IF Len(skill) > 100 THEN FALSE
        ELSE IF \E indicator \in invalid_indicators : Occurs(indicator, skill) THEN FALSE
        ELSE IF Len(Strip(skill)) <= 1 THEN FALSE
        ELSE IF skill \in ui_terms THEN FALSE
        ELSE ~(Len(words) > 3 /\ 2 * Count(words, common_words) > Len(words))

_is_single_clean_skill(text) ==
    IF text = << >> \/ Len(text) < 2 THEN FALSE
    ELSE Lower(text) \in clean_skills \/ (Len(text) <= 15 /\ ~HasDigit(text))

\* for prefix in prefixes: if skill.lower().startswith(prefix): cut it
RECURSIVE CutPrefixes(_, _)
CutPrefixes(skill, k) ==
    IF k > Len(prefixes) THEN skill
    ELSE CutPrefixes(IF StartsWith(Lower(skill), prefixes[k])
                     THEN SubSeq(skill, Len(prefixes[k]) + 1, Len(skill))
                     ELSE skill, k + 1)

RECURSIVE CutSuffixes(_, _)
CutSuffixes(skill, k) ==
    IF k > Len(suffixes) THEN skill
    ELSE CutSuffixes(IF EndsWith(Lower(skill), suffixes[k])
                     THEN SubSeq(skill, 1, Len(skill) - Len(suffixes[k]))
                     ELSE skill, k + 1)

\* views.py:1250-1280: the spelling of the trimmed skill s
Capitalized(s) ==
    LET known == {k \in DOMAIN tech_capitalizations :
                     tech_capitalizations[k][1] = Lower(s)}
    IN  IF s = << >> THEN s
        ELSE IF known # {} THEN tech_capitalizations[CHOOSE k \in known : TRUE][2]
        ELSE IF IsUpper(s) /\ Len(s) <= 5 THEN s
        ELSE Title(s)

_clean_skill(skill) ==
    Capitalized(Strip(CutSuffixes(CutPrefixes(CollapseSpaces(Strip(skill)), 1), 1)))

\* sorted(known_techs, key=len, reverse=True): a stable sort
TechRank ==
    [i \in DOMAIN known_techs |->
        1 + Cardinality({j \in DOMAIN known_techs :
                \/ Len(known_techs[j]) > Len(known_techs[i])
                \/ Len(known_techs[j]) = Len(known_techs[i]) /\ j < i})]

known_techs_sorted ==
    [k \in DOMAIN known_techs |->
        known_techs[CHOOSE i \in DOMAIN known_techs : TechRank[i] = k]]

\* the delimiters of "Pattern 1"; the bullet is spelled U+201A U+00C4 U+00A2
\* in the source file
Delimiters ==
    {<<",">>, <<";">>, <<"|">>, <<"u201A","u00C4","u00A2">>, <<"/">>,
     <<" ","a","n","d"," ">>, <<" ","&"," ">>}

DelimiterChars == {",", ";", "|", "u201A", "u00C4", "u00A2", "/"}

\* the length of the match of r'[,;|<bullet>/]|\sand\s|\s&\s' at i, 0 for none
DelimiterAt(s, i) ==
    IF s[i] \in DelimiterChars THEN 1
    ELSE IF /\ s[i] \in Whitespace /\ OccursAt(s, i + 1, <<"a","n","d">>)
            /\ i + 4 <= Len(s) /\ s[i + 4] \in Whitespace THEN 5
    ELSE IF /\ s[i] \in Whitespace /\ OccursAt(s, i + 1, <<"&">>)
            /\ i + 2 <= Len(s) /\ s[i + 2] \in Whitespace THEN 3
    ELSE 0

\* re.split of s from i on, with cur the part collected so far
RECURSIVE SplitFrom(_, _, _)
SplitFrom(s, i, cur) ==
    IF i > Len(s) THEN <<cur>>
    ELSE IF DelimiterAt(s, i) > 0
    THEN <<cur>> \o SplitFrom(s, i + DelimiterAt(s, i), << >>)
    ELSE SplitFrom(s, i + 1, Append(cur, s[i]))

\* the parts "Pattern 1" keeps
RECURSIVE KeptParts(_, _)
KeptParts(parts, k) ==
    IF k > Len(parts) THEN << >>
    ELSE LET part == Strip(parts[k])
         IN  (IF Len(part) >= 2 /\ Len(part) < 25 /\ _looks_like_skill(part)
              THEN <<part>> ELSE << >>) \o KeptParts(parts, k + 1)

\* re.sub(r'[^\w\s.-]', '', s)
RECURSIVE KeepWordChars(_)
KeepWordChars(s) ==
    IF s = << >> THEN s
    ELSE (IF IsWordChar(s[1]) \/ s[1] \in Whitespace \/ s[1] \in {".", "-"}
          THEN <<s[1]>> ELSE << >>) \o KeepWordChars(Tail(s))

\* views.py:842-851: what remains of the text is kept if it looks like a skill
KeptRemaining(remaining_text, cleaned) ==
    IF Len(remaining_text) >= 2 /\ cleaned # << >> /\ _looks_like_skill(cleaned)
    THEN <<cleaned>> ELSE << >>

\* views.py:815-846: tech, found at start_idx, is taken out of the text
TakenOut(text, tech, start_idx) ==
    LET remaining_text ==
            Strip(CollapseSpaces(SubSeq(text, 1, start_idx - 1) \o
                      SubSeq(text, start_idx + Len(tech), Len(text))))
    IN  <<tech>> \o KeptRemaining(remaining_text, Strip(KeepWordChars(remaining_text)))

\* hits: the indices of the technologies of known_techs_sorted that occur in
\* lower; the loop stops at the first of them
FirstHit(text, lower, hits) ==
    IF hits = {} THEN KeptRemaining(text, Strip(KeepWordChars(text)))
    ELSE LET tech == known_techs_sorted[CHOOSE k \in hits : \A j \in hits : k <= j]
         IN  TakenOut(text, tech, Find(lower, Lower(tech)))

KnownTechHits(text, lower) ==
    FirstHit(text, lower, {k \in DOMAIN known_techs_sorted :
                              Occurs(Lower(known_techs_sorted[k]), lower)})

\* "Pattern 2": the first technology of known_techs_sorted that occurs in
\* text is taken out, and what remains is kept if it looks like a skill
KnownTechSplit(text) == KnownTechHits(text, Lower(text))

MaxSkillLen == 30      \* longest skill text handed to the skill functions

\* _split_concatenated_skills for a text of at most MaxSkillLen characters:
\* the camelCase fallback after "if len(text) <= 30: return [text]" needs a
\* longer text
\* skills, or the text itself when there are none
OrText(skills, text) == IF skills # << >> THEN skills ELSE <<text>>

\* views.py:743-853 on the stripped text
SplitStripped(text) ==
    IF Len(text) < 20 /\ ~Occurs(<<" ">>, text) /\ _is_single_clean_skill(text)
    THEN <<text>>
    ELSE IF \E delim \in Delimiters : Occurs(delim, text)
    THEN OrText(KeptParts(SplitFrom(text, 1, << >>), 1), text)
    ELSE OrText(KnownTechSplit(text), text)

_split_concatenated_skills(raw) ==
    IF raw = << >> THEN << >>
    ELSE IF Len(raw) < 3 THEN <<raw>>
    ELSE SplitStripped(Strip(raw))

\* matches / len(longer) >= 0.8
SimilarEnough(str1, str2) ==
    LET longer == IF Len(str1) > Len(str2) THEN str1 ELSE str2
        shorter == IF Len(str1) > Len(str2) THEN str2 ELSE str1
        matches == Cardinality({i \in 1..Len(shorter) : shorter[i] \in Range(longer)})
    IN  str1 = str2 \/ Len(longer) = 0 \/ 5 * matches >= 4 * Len(longer)

\* list.remove(x): the first element equal to x is dropped
RemoveFirst(list, x) ==
    LET k == CHOOSE i \in 1..Len(list) :
                 list[i] = x /\ \A j \in 1..(i - 1) : list[j] # x
    IN  SubSeq(list, 1, k - 1) \o SubSeq(list, k + 1, Len(list))

\* the loop of _deduplicate_skills from skills[k] on
RECURSIVE DeduplicateFrom(_, _, _, _)
DeduplicateFrom(skills, k, seen, deduplicated) ==
    IF k > Len(skills) THEN deduplicated
    ELSE LET skill == skills[k]
             similar == {i \in 1..Len(deduplicated) :
                            SimilarEnough(Lower(skill), Lower(deduplicated[i]))}
             existing_skill == deduplicated[CHOOSE i \in similar : \A j \in similar : i <= j]
         IN  IF Lower(skill) \in seen
             THEN DeduplicateFrom(skills, k + 1, seen, deduplicated)
             ELSE IF similar # {}
             THEN DeduplicateFrom(skills, k + 1, seen,
                      IF Len(skill) < Len(existing_skill)
                      THEN Append(RemoveFirst(deduplicated, existing_skill), skill)
                      ELSE deduplicated)
             ELSE DeduplicateFrom(skills, k + 1, seen \cup {Lower(skill)},
                                  Append(deduplicated, skill))

_deduplicate_skills(skills) == DeduplicateFrom(skills, 1, {}, << >>)

\* the same test without "if len(skill) > 6"
IsConcatenatedAtAnyLength(skill, skills) ==
    LET contained_skills ==
            SelectSeq(skills, LAMBDA other_skill :
                /\ other_skill # skill /\ Len(other_skill) >= 3
                /\ Occurs(Lower(other_skill), Lower(skill)))
        remaining_part == Remove(Lower(skill), Lower(contained_skills[1]))
    IN  \/ Len(contained_skills) >= 2
        \/ /\ Len(contained_skills) = 1
           /\ Len(skill) > Len(contained_skills[1]) + 2
           /\ Len(remaining_part) >= 3
           /\ \E i \in 1..Len(skills) :
                 skills[i] # skill /\ Lower(skills[i]) = remaining_part

\* the test of _filter_concatenated_duplicates on one skill
IsConcatenated(skill, skills) ==
    LET contained_skills ==
            SelectSeq(skills, LAMBDA other_skill :
                /\ other_skill # skill /\ Len(other_skill) >= 3
                /\ Occurs(Lower(other_skill), Lower(skill)))
        remaining_part == Remove(Lower(skill), Lower(contained_skills[1]))
    IN  /\ Len(skill) > 6
        /\ \/ Len(contained_skills) >= 2
           \/ /\ Len(contained_skills) = 1
              /\ Len(skill) > Len(contained_skills[1]) + 2
              /\ Len(remaining_part) >= 3
              /\ \E i \in 1..Len(skills) :
                    skills[i] # skill /\ Lower(skills[i]) = remaining_part

_filter_concatenated_duplicates(skills) ==
    SelectSeq(skills, LAMBDA skill : ~IsConcatenated(skill, skills))

Flatten(seqs) ==
    LET RECURSIVE Go(_)
        Go(k) == IF k > Len(seqs) THEN << >> ELSE seqs[k] \o Go(k + 1)
    IN  Go(1)

SkillsCap == 20

\* views.py:643-651 for one skill, cleaned being _clean_skill(skill)
SplitCleaned(cleaned) ==
    IF cleaned # << >> /\ _is_valid_skill(cleaned) /\ Len(cleaned) >= 2
    THEN SelectSeq(_split_concatenated_skills(cleaned),
                   LAMBDA split_skill : Len(split_skill) >= 2)
    ELSE << >>

\* final_skills[:20]
Capped(final_skills) == SubSeq(final_skills, 1, Min(SkillsCap, Len(final_skills)))

\* the end of _extract_required_skills_from_page (views.py 643-659): skills
\* is the found set in the order the for loop meets it
NormalizeSkills(skills) ==
    Capped(_filter_concatenated_duplicates(_deduplicate_skills(
        Flatten([k \in 1..Len(skills) |-> SplitCleaned(_clean_skill(skills[k]))]))))

----------------------------------------------------------------------------
(* The pure functions, each applied once to an argument drawn at the start *)

MaxCompLen == 4        \* longest compensation text built from CompAlphabet

CompAlphabet == {"2", "5", "-", " ", "L", "P", "A", "u20B9"}

CompExamples ==
    { <<"6","-","1","2"," ","L","P","A">>,
      <<"u20B9","2","5","L">>,
      <<"2","5"," ","L","P","A">>,
      <<"1",".","5"," ","t","o"," ","2"," ","L","P","A">>,
      <<"u20B9","1",",","2","0","0","-","1",",","5","0","0">>,
      <<"b","e","t","w","e","e","n"," ","5"," ","a","n","d"," ","1","0">>,
      <<"2","5"," ","l","a","k","h","s">>,
      <<"2","5"," ","p","a">>,
      <<"C","o","m","p","e","t","i","t","i","v","e">>,
      <<"u201A","u00C7","u03C0","2","5">> }

CompArgs ==
    {NoneArg} \cup {TextArg(t) : t \in SeqsUpTo(CompAlphabet, MaxCompLen) \cup CompExamples}

MaxSkills == 2         \* skills in one found set

\* technologies of known_techs whose concatenations are split
KnownSample ==
    {<<"P","y","t","h","o","n">>,
     <<"R","e","a","c","t">>,
     <<"J","a","v","a">>,
     <<"D","o","c","k","e","r">>,
     <<"A","W","S">>}

SkillExamples ==
    {<<"n","o","d","e","j","s">>,
     <<"P","y","t","h","o","n">>,
     <<"R","e","a","c","t">>,
     <<"P","y","t","h","o","n","R","e","a","c","t">>,
     <<"p","y","t","h","o","n",","," ","r","e","a","c","t">>,
     <<"N","o","d","e",".","j","s"," ","B","a","c","k","e","n","d">>,
     <<"g","o","o","d"," ","p","y","t","h","o","n"," ","s","k","i","l","l","s">>,
     <<"A","W","S">>,
     <<"i","O","S"," ","D","e","v","e","l","o","p","m","e","n","t">>,
     <<"J","a","v","a","S","c","r","i","p","t">>,
     <<"J","a","v","a">>,
     <<"h","o","m","e">>,
     <<"5"," ","y","e","a","r","s"," ","e","x","p","e","r","i","e","n","c","e">>,
     <<"R","e","a","c","t","/","R","e","d","u","x">>,
     <<"C","+","+">>}

\* the skill texts of the model: those of at most MaxSkillLen characters
SkillTexts == {t \in SkillExamples : Len(t) <= MaxSkillLen}

\* two long technologies of known_techs
LongSample ==
    {<<"J","a","v","a","S","c","r","i","p","t">>,
     <<"T","y","p","e","S","c","r","i","p","t">>}

\* the lists of two long or three short technologies
NameLists ==
    [1..2 -> LongSample] \cup [1..3 -> KnownSample]

SplitArgs ==
    {t \in SkillTexts \cup {a \o b : a, b \in KnownSample}
                      \cup {Flatten(names) : names \in NameLists} :
        Len(t) <= MaxSkillLen}

\* the orders in which a for loop can meet the elements of set S
Orders(S) == {f \in [1..Cardinality(S) -> S] : Range(f) = S}

\* a found set of at most MaxSkills skills, in each order
NormalizeArgs ==
    UNION {Orders(S) : S \in {T \in SUBSET SkillTexts : Cardinality(T) <= MaxSkills}}

MaxListLen == 4        \* skills in one list handed to _deduplicate_skills

\* skills that look alike letter by letter, and one that does not
AlikePool ==
    {<<"S","p","a","r","k">>,
     <<"S","c","a","l","a">>,
     <<"S","A","S","S">>,
     <<"S","a","s","s">>,
     <<"J","a","v","a">>}

DeduplicateArgs == SeqsUpTo(AlikePool, MaxListLen)

MaxTokens == 3         \* tokens in one list handed to _filter_concatenated_duplicates

\* tokens, and tokens that contain others
TokenPool ==
    {<<"A","W","S">>,
     <<"G","C","P">>,
     <<"A","W","S","G","C","P">>,
     <<"R","e","a","c","t">>,
     <<"r","e","a","c","t">>,
     <<"P","y","t","h","o","n">>,
     <<"P","y","t","h","o","n","R","e","a","c","t">>,
     <<"R","e","a","c","t","J","S">>,
     <<"M","S","S","Q","L">>,
     <<"M","S","R","e","a","c","t","S","Q","L">>}

FilterArgs == SeqsUpTo(TokenPool, MaxTokens)

PureCalls ==
    {[fn |-> "parse_compensation", arg |-> a, done |-> FALSE, result |-> NoSalaries] :
        a \in CompArgs}
    \cup
    {[fn |-> "_deduplicate_skills", arg |-> a, done |-> FALSE, result |-> << >>] :
        a \in DeduplicateArgs}
    \cup
    {[fn |-> "_filter_concatenated_duplicates", arg |-> a, done |-> FALSE,
      result |-> << >>] : a \in FilterArgs}
    \cup
    {[fn |-> "split", arg |-> a, done |-> FALSE, result |-> << >>] : a \in SplitArgs}
    \cup
    {[fn |-> "normalize", arg |-> a, done |-> FALSE, result |-> << >>,
      redone |-> FALSE, again |-> << >>] : a \in NormalizeArgs}

InitPure == IdleWith("free") /\ call \in PureCalls

scraperVars == <<stub, shown, runs, faults, pc, driver, max_jobs, max_jobs_is_int,
                 max_pages, scrape_details, page, all_jobs, page_num,
                 previous_job_count, no_change_count, jobs_to_process, idx,
                 job_details, jobs_saved, db, results, pagesProcessed,
                 navCalls, lastNav, detailStatus, lastSave, setupResult,
                 pageLoads, dbWrites, useAfterClose, request>>

CallParseCompensation ==
    /\ call.fn = "parse_compensation" /\ ~call.done
    /\ call' = [call EXCEPT !.done = TRUE, !.result = parse_compensation(call.arg)]
    /\ UNCHANGED scraperVars

CallSplit ==
    /\ call.fn = "split" /\ ~call.done
    /\ call' = [call EXCEPT !.done = TRUE,
                            !.result = _split_concatenated_skills(call.arg)]
    /\ UNCHANGED scraperVars

CallDeduplicate ==
    /\ call.fn = "_deduplicate_skills" /\ ~call.done
    /\ call' = [call EXCEPT !.done = TRUE, !.result = _deduplicate_skills(call.arg)]
    /\ UNCHANGED scraperVars

CallFilter ==
    /\ call.fn = "_filter_concatenated_duplicates" /\ ~call.done
    /\ call' = [call EXCEPT !.done = TRUE,
                            !.result = _filter_concatenated_duplicates(call.arg)]
    /\ UNCHANGED scraperVars

\* the normalizing end of _extract_required_skills_from_page on a found set
CallNormalize ==
    /\ call.fn = "normalize" /\ ~call.done
    /\ call' = [call EXCEPT !.done = TRUE, !.result = NormalizeSkills(call.arg)]
    /\ UNCHANGED scraperVars

\* the same on the set of skills it has produced, met in any order
CallNormalizeAgain ==
    /\ call.fn = "normalize" /\ call.done /\ ~call.redone
    /\ \E order \in Orders(Range(call.result)) :
          call' = [call EXCEPT !.redone = TRUE, !.again = NormalizeSkills(order)]
    /\ UNCHANGED scraperVars

----------------------------------------------------------------------------
(* Specifications *)

\* the steps of a running scrape_jobs call
Step ==
    \/ SetupDriver
    \/ LoadListing
    \/ ProcessPage
    \/ Navigate
    \/ FetchDetails
    \/ SaveJob
    \/ CloseDriver

Next == Start \/ Refresh \/ Step

Spec == Init /\ [][Next]_vars

\* the runs against the scripted fetcher stubs
SpecStub == InitStub /\ [][Next]_vars

\* one call per behaviour, entered either way
FirstRefresh == pc = "idle" /\ Refresh

OneCall == Start \/ FirstRefresh \/ Step

\* a call that has started runs on: the code is sequential and every call it
\* makes returns or raises. The page loop reads nothing an earlier call wrote
\* (Enter resets every local), so one call per behaviour covers it.
FairSpec == Init /\ [][OneCall]_vars /\ WF_vars(Step)

\* one call per behaviour, made through the HTTP action or the command
NextApi == ScrapeDevsunite \/ ScrapeJobsCommand \/ Step

SpecApi == Init /\ [][NextApi]_vars

\* each pure function applied to each of its arguments
NextPure ==
    \/ CallParseCompensation
    \/ CallSplit
    \/ CallDeduplicate
    \/ CallFilter
    \/ CallNormalize
    \/ CallNormalizeAgain

SpecPure == InitPure /\ [][NextPure]_vars

\* the same for one call against a scripted fetcher stub
FairSpecStub == InitStub /\ [][OneCall]_vars /\ WF_vars(Step)

\* the scripted stubs, with navigate_to_next_page observed in detail
InitNav == \E s \in Stubs \ {"free"} : IdleWith(s) /\ call = NavWatch

SpecNav == InitNav /\ [][Next]_vars

----------------------------------------------------------------------------
(* Properties *)

RowsOf(rows, title, company) ==
    {k \in 1..Len(rows) : rows[k].role = title /\ rows[k].company_name = company}

\* C1: every job extract_job_cards has accumulated has a title and a company
\* that are neither empty nor the "Unknown Position" / "Unknown Company"
\* placeholders.
C1_TitleAndCompanyRequired ==
    \A k \in 1..Len(all_jobs) :
        /\ all_jobs[k].title \notin {<< >>, UnknownPosition}
        /\ all_jobs[k].company \notin {<< >>, UnknownCompany}

\* C2: the accumulated job list never holds two jobs with the same (non-empty)
\* title and company, whether they came from one page or from several.
C2_NoDuplicatePairs ==
    \A i, j \in 1..Len(all_jobs) :
        (/\ all_jobs[i].title # << >>
         /\ all_jobs[i].company # << >>
         /\ all_jobs[i].title = all_jobs[j].title
         /\ all_jobs[i].company = all_jobs[j].company) => i = j

\* C3: the table holds at most one record per (company, title); a save that
\* completes leaves exactly one record for its job, under the key computed
\* from company and title alone, and reports created=False whenever a record
\* for that company and title was already stored, in this run or an earlier one.
C3_IdempotentUpsert ==
    /\ \A i, j \in 1..Len(db) :
          (db[i].role = db[j].role /\ db[i].company_name = db[j].company_name)
              => i = j
    /\ (lastSave.called /\ lastSave.ok) =>
          /\ Cardinality(RowsOf(db, lastSave.job.title, lastSave.job.company)) = 1
          /\ \A k \in RowsOf(db, lastSave.job.title, lastSave.job.company) :
                db[k].external_id
                    = ExternalId(lastSave.job.company, lastSave.job.title)
          /\ lastSave.existed => ~lastSave.created

C3_Witness ==
    /\ runs = 2
    /\ lastSave.called /\ lastSave.ok
    /\ lastSave.existed /\ ~lastSave.created
    /\ Len(db) = 1

\* C4: against the stub that shows 5 well-formed cards and, after a successful
\* navigation, 5 other well-formed cards, scrape_jobs(max_jobs=100,
\* max_pages=2) returns jobs_saved=10, pages_scraped=2 and no errors.
C4_TwoPagesTenJobs ==
    (/\ stub = "twoPage5x5"
     /\ pc = "returned"
     /\ max_jobs = 100 /\ max_jobs_is_int /\ max_pages = 2
     /\ faults = 0
     /\ navCalls = 1 /\ shown = 2 /\ pagesProcessed = 2)
    => /\ results.jobs_saved = 10
       /\ results.pages_scraped = 2
       /\ results.errors = << >>

\* C5: against the stub that shows one page with 4 well-formed cards and one
\* card without a title, a run in which no collaborator fails and max_jobs
\* does not cut the list saves exactly the 4 well-formed jobs and reports no
\* error.
C5_Scenario ==
    /\ stub = "onePage4plus1"
    /\ pc = "returned"
    /\ runs >= 1
    /\ faults = 0
    /\ max_jobs_is_int /\ (max_jobs = 0 \/ max_jobs >= 4)

C5_MalformedCardSkipped ==
    C5_Scenario =>
        /\ results.jobs_scraped = 4
        /\ results.jobs_saved = 4
        /\ results.errors = << >>
        /\ {<<db[k].role, db[k].company_name>> : k \in 1..Len(db)}
              = {<<ScenCard(n).title, ScenCard(n).company>> : n \in 1..4}

C5_Witness == C5_Scenario /\ runs = 1 /\ results.jobs_saved = 4 /\ Len(db) = 4

C7_PageLoopBounded ==
    /\ [](max_pages >= 1 /\ pagesProcessed <= max_pages
            /\ navCalls <= max_pages - 1)
    /\ (pc \in {"page", "nav"}) ~> (pc \notin {"page", "nav"})

C7_Witness ==
    /\ max_pages = 3
    /\ pagesProcessed = 3
    /\ navCalls = 2
    /\ pc \notin {"page", "nav"}

\* C8: the record a save wrote has details_scraped=True only if the detail
\* fetch for that job was attempted and succeeded; after a failed detail fetch
\* the job is saved with details_scraped=False.
C8_DetailsScrapedOnlyOnSuccess ==
    (lastSave.called /\ lastSave.ok) =>
        \A k \in RowsOf(db, lastSave.job.title, lastSave.job.company) :
            /\ db[k].details_scraped => lastSave.detail = "ok"
            /\ lastSave.detail = "failed" => ~db[k].details_scraped

\* C9: once setup_driver has failed, scrape_jobs goes straight to its exit and
\* returns success=False with zero counts and a non-empty error list, having
\* loaded no page and written no record.
C9_SetupFailureReported ==
    setupResult = "failed" =>
        /\ pc \in {"finally", "returned"}
        /\ ~results.success
        /\ results.jobs_scraped = 0
        /\ results.jobs_saved = 0
        /\ results.pages_scraped = 0
        /\ results.errors # << >>
        /\ pageLoads = 0
        /\ dbWrites = 0

C9_Witness ==
    /\ setupResult = "failed"
    /\ pc = "returned"
    /\ driver = "none"
    /\ results.errors = <<"Failed to initialize WebDriver">>

\* C10: when scrape_jobs has returned, by whichever path, a browser session
\* that was created has been quit, and no driver call was made after the quit.
C10_SessionClosedOnEveryExit ==
    /\ pc = "returned" => driver # "open"
    /\ ~useAfterClose

C10_Witness ==
    /\ pc = "returned"
    /\ driver = "closed"
    /\ results.errors = <<"Critical error during scraping">>

----------------------------------------------------------------------------
ResultKeys == {"success", "jobs_scraped", "jobs_saved", "pages_scraped", "errors"}

----------------------------------------------------------------------------
\* the decimal numeral of n < 100
Numeral(n) ==
    IF n < 10 THEN <<DigitChars[n + 1]>>
    ELSE <<DigitChars[(n \div 10) + 1], DigitChars[(n % 10) + 1]>>

LpaAmounts == {2, 5, 6, 12, 25}

\* C12: for LPA text parse_compensation returns (N*100000, M*100000) for
\* "N-M LPA" and (N*100000, N*100000) for the single values "N LPA" and
\* "<rupee sign>NL"; "6-12 LPA" gives (600000, 1200000) and the rupee sign
\* followed by "25L" gives (2500000, 2500000).
C12_LpaTextParsed ==
    (call.fn = "parse_compensation" /\ call.done) =>
        \A n, m \in LpaAmounts :
            /\ call.arg = TextArg(Numeral(n) \o <<"-">> \o Numeral(m) \o <<" ","L","P","A">>)
                   => call.result = Salaries(n * 100000, m * 100000)
            /\ call.arg = TextArg(Numeral(n) \o <<" ","L","P","A">>)
                   => call.result = Salaries(n * 100000, n * 100000)
            /\ call.arg = TextArg(<<"u20B9">> \o Numeral(n) \o <<"L">>)
                   => call.result = Salaries(n * 100000, n * 100000)

\* C13: parse_compensation raises for no text, empty or None included, and
\* returns (None, None) for a text without any digit, such as "Competitive".
C13_NeverRaisesNoneWithoutAmount ==
    (call.fn = "parse_compensation" /\ call.done) =>
        /\ ~call.result.raised
        /\ (\A i \in 1..Len(call.arg.text) : call.arg.text[i] \notin Digits)
               => call.result = NoSalaries

\* "Competitive" has been parsed to (None, None)
C13_Witness ==
    /\ call.fn = "parse_compensation" /\ call.done
    /\ call.arg = TextArg(<<"C","o","m","p","e","t","i","t","i","v","e">>)
    /\ call.result = NoSalaries

----------------------------------------------------------------------------
PythonReact == <<"P","y","t","h","o","n","R","e","a","c","t">>

PythonAndReact == {<<"P","y","t","h","o","n">>, <<"R","e","a","c","t">>}

\* C14: the splitter turns "PythonReact" into exactly the set {"Python",
\* "React"}, and so does the normalizing pipeline for the found set
\* {"PythonReact"}; neither hands back the concatenated original.
C14_PythonReactIsSplit ==
    /\ (call.fn = "split" /\ call.done /\ call.arg = PythonReact)
           => Range(call.result) = PythonAndReact
    /\ (call.fn = "normalize" /\ call.done /\ call.arg = <<PythonReact>>)
           => Range(call.result) = PythonAndReact

\* C15: normalizing a set of skills that the pipeline has produced gives the
\* same set again.
C15_NormalizeIsIdempotent ==
    (call.fn = "normalize" /\ call.redone) => Range(call.again) = Range(call.result)

----------------------------------------------------------------------------
\* C16: scrape_devsunite starts a scrape only when max_jobs is an integer in
\* [0, 1000] and max_pages is an integer in [1, 50]; any other value is
\* answered with 400, no browser session is created and no record written.
C16_OnlyValidRequestsScrape ==
    request.via = "scrape_devsunite" =>
        IF /\ request.max_jobs.type = "int"
           /\ request.max_jobs.val \in 0..1000
           /\ request.max_pages.type = "int"
           /\ request.max_pages.val \in 1..50
        THEN request.status # 400
        ELSE /\ request.status = 400
             /\ pc = "idle" /\ runs = 0
             /\ driver = "none" /\ setupResult = "pending"
             /\ db = << >> /\ dbWrites = 0

\* jobs with a title and a company, no two of them for the same pair
DistinctJobs(jobs) ==
    /\ \A k \in 1..Len(jobs) : jobs[k].title # << >> /\ jobs[k].company # << >>
    /\ \A j, k \in 1..Len(jobs) :
          (jobs[j].title = jobs[k].title /\ jobs[j].company = jobs[k].company) => j = k

\* C17: a scrapejobs run with --limit N processes at most N jobs, and one
\* with --skip-details fetches no detail page (stated for runs that
\* extracted distinct jobs with a title and a company).
C17_CommandOptionsHonoured ==
    (request.via = "scrapejobs" /\ DistinctJobs(all_jobs)) =>
        /\ request.limit > 0 =>
               (Len(jobs_to_process) <= request.limit /\ dbWrites <= request.limit)
        /\ request.skip_details => detailStatus = "none"

----------------------------------------------------------------------------
JobTypes == {"FULL_TIME", "PART_TIME", "CONTRACT", "INTERNSHIP"}

KnownBadges == {"FULL TIME", "PART TIME", "INTERNSHIP", "CONTRACT"}

\* C18: every job that parse_job_card emitted has a job_type among FULL_TIME,
\* PART_TIME, CONTRACT and INTERNSHIP, and a card of the page shown that has
\* no badge, or a badge naming none of the known types, gives FULL_TIME.
C18_JobTypeIsEnumerated ==
    /\ \A k \in 1..Len(all_jobs) :
          (all_jobs[k].title # << >> /\ all_jobs[k].company # << >>)
              => all_jobs[k].job_type \in JobTypes
    /\ \A i \in 1..Len(page) :
          (ParseJobCard(page[i]) # << >> /\ page[i].title # << >>
             /\ page[i].badge \notin KnownBadges)
              => ParseJobCard(page[i])[1].job_type = "FULL_TIME"

----------------------------------------------------------------------------
\* C19: in a run with max_jobs > 0 the job loop handles at most max_jobs jobs,
\* the k-th job it handles is the k-th job extracted, and a run that ends
\* well has handled the first max_jobs of them; with max_jobs = 0 it has
\* handled every extracted job.
C19_AtMostMaxJobsInOrder ==
    max_jobs_is_int =>
        /\ pc \in {"details", "save"} =>
              /\ idx <= Len(all_jobs) /\ jobs_to_process[idx] = all_jobs[idx]
              /\ max_jobs > 0 => idx <= max_jobs
        /\ lastSave.called =>
              \E k \in 1..idx : lastSave.job = all_jobs[k] /\ (max_jobs > 0 => k <= max_jobs)
        /\ max_jobs > 0 => dbWrites <= max_jobs
        /\ results.success =>
              results.jobs_scraped =
                  IF max_jobs > 0 THEN Min(max_jobs, Len(all_jobs)) ELSE Len(all_jobs)

\* a run with max_jobs = 1 that extracted two jobs has ended after one save
C19_Witness ==
    /\ pc = "returned" /\ results.success
    /\ max_jobs = 1 /\ Len(all_jobs) = 2
    /\ results.jobs_scraped = 1 /\ dbWrites = 1

----------------------------------------------------------------------------
\* the card loop of the page shown runs in this step: the page has cards and
\* their number has not stayed the same for two attempts
CardLoopRuns ==
    /\ pc = "page" /\ page_num <= max_pages
    /\ page # << >>
    /\ ~(Len(page) = previous_job_count /\ no_change_count + 1 >= 2)

HasJob(jobs, job_info) ==
    \E k \in 1..Len(jobs) :
        jobs[k].title = job_info.title /\ jobs[k].company = job_info.company

\* C20: when parsing one card of a listing page raises, only that card is
\* skipped: the jobs accumulated so far are kept, every later card of the
\* page that parses is among the jobs afterwards, and the page loop goes on
\* to the next page when the page gave a new job and the page cap allows.
C20_OnlyTheBrokenCardIsSkipped ==
    [][ (/\ CardLoopRuns
         /\ faults' = faults
         /\ \E i \in (StartIndex(page_num, all_jobs) + 1)..Len(page) : page[i].broken)
        =>
        (/\ Len(all_jobs') >= Len(all_jobs)
         /\ SubSeq(all_jobs', 1, Len(all_jobs)) = all_jobs
         /\ \A i, j \in (StartIndex(page_num, all_jobs) + 1)..Len(page) :
               (page[i].broken /\ j > i /\ ParseJobCard(page[j]) # << >>)
                   => HasJob(all_jobs', ParseJobCard(page[j])[1])
         /\ (Len(all_jobs') > Len(all_jobs) /\ page_num < max_pages) => pc' = "nav")
      ]_vars

\* the listing with a broken card has been read to the end: the jobs of the
\* cards around and after the broken ones, from both renderings, are there
C20_Witness ==
    /\ stub = "brokenCard"
    /\ faults = 0
    /\ pagesProcessed = 2
    /\ Len(all_jobs) = 3
    /\ HasJob(all_jobs, JobInfo(ScenCard(2)))
    /\ HasJob(all_jobs, JobInfo(ScenCard(3)))

----------------------------------------------------------------------------
\* C21: in one call of navigate_to_next_page at most one control is clicked,
\* the chevron only if no page-number button was clicked; the call returns
\* False only if no control was clicked and True after a click, also when the
\* first item's text never changed; the poll after the click makes at most
\* 10 rounds for the page-number button and 8 for the chevron.
C21_OneControlInPriorityOrder ==
    navCalls > 0 =>
        /\ Len(call.clicked) <= 1
        /\ \A i \in 1..Len(call.clicked) :
               call.clicked[i] = "number" => i = Len(call.clicked)
        /\ lastNav.result <=> call.clicked # << >>
        /\ call.clicked = << >> => call.polls = 0
        /\ call.clicked # << >> =>
               call.polls <= PollBound(call.clicked[Len(call.clicked)])

----------------------------------------------------------------------------
\* a step of the page loop that looks at a rendered page with cards, within
\* max_pages, and in which no driver call raises
LooksAtPage ==
    /\ pc = "page" /\ page_num <= max_pages /\ page # << >>
    /\ faults' = faults

\* the page's card count equals the count of the page before
SameCountAsBefore == Len(page) = previous_job_count

NewJobsOnPage == PageJobs(page, StartIndex(page_num, all_jobs) + 1, all_jobs)

\* C22 (as stated): a page whose card count equals the previous page's count
\* is the last one processed: no navigation follows it.
C22_StopsAtFirstUnchangedCount ==
    [][(LooksAtPage /\ SameCountAsBefore) => pc' # "nav"]_vars

\* C22 (amended): the page loop stops on the card count only at the second
\* page in a row whose count equals that of the page before, and it takes no
\* job from that page; the first such page is still extracted and, when it
\* yields a new job below the page cap, followed by a navigation.
C22_StopsAtSecondUnchangedCount ==
    [][(LooksAtPage /\ SameCountAsBefore) =>
          IF no_change_count >= 1
          THEN pc' \notin {"page", "nav"} /\ all_jobs' = all_jobs
          ELSE /\ all_jobs' = all_jobs \o NewJobsOnPage
               /\ (NewJobsOnPage # << >> /\ page_num < max_pages) => pc' = "nav"]_vars

\* the third rendering of the stub holds a new job, ScenCard(3), that the
\* stop on the unchanged count leaves out
C22_Witness ==
    /\ stub = "sameCount"
    /\ faults = 0
    /\ max_pages = 3
    /\ pagesProcessed = 3
    /\ navCalls = 2
    /\ pc \notin {"page", "nav"}
    /\ Len(all_jobs) = 2
    /\ ~HasJob(all_jobs, JobInfo(ScenCard(3)))

\* C23: for every input list, the output of _deduplicate_skills holds no two
\* entries that are equal ignoring case and no two entries whose similarity
\* is at least 0.8, and every skill of the input is represented by an entry
\* like it that is no longer than itself.
C23_NoNearDuplicatesLeft ==
    (call.fn = "_deduplicate_skills" /\ call.done) =>
        /\ \A i, j \in 1..Len(call.result) :
               i # j => /\ Lower(call.result[i]) # Lower(call.result[j])
                        /\ ~SimilarEnough(Lower(call.result[i]), Lower(call.result[j]))
        /\ \A k \in 1..Len(call.arg) : \E i \in 1..Len(call.result) :
               /\ SimilarEnough(Lower(call.arg[k]), Lower(call.result[i]))
               /\ Len(call.result[i]) <= Len(call.arg[k])

\* the places of the tokens of at least minLen characters, other than token,
\* that token contains when case is ignored
OthersIn(token, tokens, minLen) ==
    {i \in 1..Len(tokens) : /\ tokens[i] # token
                            /\ Len(tokens[i]) >= minLen
                            /\ Occurs(Lower(tokens[i]), Lower(token))}

\* what is left of token when every occurrence of tokens[i] is taken out
Residue(token, tokens, i) == Remove(Lower(token), Lower(tokens[i]))

\* token holds two other tokens, or one other token and a residue that is a
\* third token
HoldsOthers(token, tokens) ==
    LET others == OthersIn(token, tokens, 1)
    IN  \/ Cardinality(others) >= 2
        \/ \E i \in others :
              /\ others = {i}
              /\ \E j \in 1..Len(tokens) :
                    /\ j # i /\ tokens[j] # token
                    /\ Lower(tokens[j]) = Residue(token, tokens, i)

\* C24 (as stated): _filter_concatenated_duplicates drops exactly the tokens
\* that contain two or more other tokens, or one other token and a residue
\* equal to a third token, and keeps every other token in input order.
C24_DropsEveryTokenHoldingOthers ==
    (call.fn = "_filter_concatenated_duplicates" /\ call.done) =>
        call.result = SelectSeq(call.arg, LAMBDA token : ~HoldsOthers(token, call.arg))

\* the same for a token of more than 6 characters and other tokens of at
\* least 3, the one other token being more than 2 characters shorter and the
\* residue at least 3 characters long and equal to any token but token itself
HoldsOthersAtLength(token, tokens) ==
    LET others == OthersIn(token, tokens, 3)
    IN  /\ Len(token) > 6
        /\ \/ Cardinality(others) >= 2
           \/ \E i \in others :
                 /\ others = {i}
                 /\ Len(token) > Len(tokens[i]) + 2
                 /\ Len(Residue(token, tokens, i)) >= 3
                 /\ \E j \in 1..Len(tokens) :
                       /\ tokens[j] # token
                       /\ Lower(tokens[j]) = Residue(token, tokens, i)

\* C24 (amended): _filter_concatenated_duplicates drops exactly the tokens of
\* more than 6 characters that contain, ignoring case, two or more other
\* tokens of at least 3 characters, or exactly one such token that is more
\* than 2 characters shorter and a residue of at least 3 characters that
\* equals, ignoring case, a token other than the token itself; every other
\* token is kept, in input order.
C24_DropsLongTokensHoldingOthers ==
    (call.fn = "_filter_concatenated_duplicates" /\ call.done) =>
        call.result =
            SelectSeq(call.arg, LAMBDA token : ~HoldsOthersAtLength(token, call.arg))

\* a token was dropped for its one contained token and its residue
C24_Witness ==
    /\ call.fn = "_filter_concatenated_duplicates" /\ call.done
    /\ call.arg = << <<"R","e","a","c","t">>, <<"M","S","S","Q","L">>,
                     <<"M","S","R","e","a","c","t","S","Q","L">> >>
    /\ call.result = << <<"R","e","a","c","t">>, <<"M","S","S","Q","L">> >>

\* text passes the clean-single-skill return and the delimiter step of
\* _split_concatenated_skills
ReachesDictionaryStep(text) ==
    /\ Len(text) >= 3 /\ Strip(text) = text
    /\ ~(Len(text) < 20 /\ ~Occurs(<<" ">>, text) /\ _is_single_clean_skill(text))
    /\ \A delim \in Delimiters : ~Occurs(delim, text)

\* C25: for an undelimited text that reaches the dictionary step of
\* _split_concatenated_skills and is the concatenation of two or more known
\* technology names, every one of the names is returned as a token of its
\* own and no name is left inside another token.
C25_EveryNameOfAConcatenationReturned ==
    (call.fn = "split" /\ call.done) =>
        \A names \in NameLists :
            (call.arg = Flatten(names) /\ ReachesDictionaryStep(call.arg)) =>
                Range(call.result) = Range(names)

\* the step loads the listing page or calls navigate_to_next_page
ListingStep == (pc = "load" /\ pageLoads' > pageLoads) \/ navCalls' > navCalls

\* the job at hand has a detail page that the run is to fetch
DetailWanted == scrape_details /\ jobs_to_process[idx].view_details_url # ""

\* C26: within one scrape_jobs run the listing-page load and every next-page
\* navigation happen before the first detail-page fetch and the first save;
\* then the jobs are handled one at a time in order: the detail fetch of a
\* job, if it has one, is followed by the save of that very job, and the
\* save by the detail fetch of the next job or by the end of the run.
C26_ListingThenJobsOneAtATime ==
    [][/\ ListingStep =>
              /\ ~lastSave.called /\ detailStatus = "none" /\ idx = 1
              /\ pageLoads = navCalls' - navCalls
              /\ pc' \notin {"save"}
       /\ pc \in {"details", "save"} =>
              /\ navCalls' = navCalls
              /\ pc' \in {"details", "save", "finally"}
              /\ jobs_to_process' = jobs_to_process
       /\ pc = "details" =>
              /\ idx > 1 => lastSave.called /\ lastSave.job = jobs_to_process[idx - 1]
              /\ pageLoads' = IF DetailWanted THEN pageLoads + 1 ELSE pageLoads
              /\ pc' = "save" /\ idx' = idx
              /\ lastSave' = lastSave /\ db' = db
       /\ pc = "save" =>
              /\ DetailWanted <=> detailStatus \in {"ok", "failed"}
              /\ pageLoads' = pageLoads
              /\ lastSave'.called /\ lastSave'.job = jobs_to_process[idx]
              /\ lastSave'.detail = detailStatus
              /\ IF idx < Len(jobs_to_process)
                 THEN pc' = "details" /\ idx' = idx + 1
                 ELSE pc' = "finally"
      ]_vars

\* the second job's details have been fetched after a navigation, the
\* first job's details and its save
C26_Witness ==
    /\ pc = "save" /\ idx = 2 /\ navCalls >= 1
    /\ detailStatus = "ok" /\ pageLoads = 3
    /\ lastSave.called /\ lastSave.job = jobs_to_process[1] /\ lastSave.detail = "ok"

\* the jobs differ in their (title, company) pair
DifferentPairs(a, b) == a.title # b.title \/ a.company # b.company

\* C27: two jobs of a run with different (title, company) pairs get different
\* external_id keys, and a save that updates a stored record instead of
\* creating one finds the record of its own (title, company) pair.
C27_DifferentPairsDifferentKeys ==
    /\ \A i, j \in 1..Len(jobs_to_process) :
           DifferentPairs(jobs_to_process[i], jobs_to_process[j]) =>
               ExternalId(jobs_to_process[i].company, jobs_to_process[i].title)
                   # ExternalId(jobs_to_process[j].company, jobs_to_process[j].title)
    /\ (lastSave.called /\ lastSave.ok /\ ~lastSave.created) => lastSave.existed

\* C28: whenever parse_compensation returns numeric values, min_salary is at
\* most max_salary.
C28_MinSalaryAtMostMaxSalary ==
    (call.fn = "parse_compensation" /\ call.done /\ call.result.some) =>
        call.result.min <= call.result.max

NoJobsFound == "No jobs found on any pages"

\* C29: if an exception escapes the page loop of extract_job_cards on a page
\* after the first, the jobs of the earlier pages are discarded, scrape_jobs
\* records 'No jobs found on any pages' and goes to its end without a job to
\* process; a run that recorded this error reports success=False and has
\* saved nothing.
C29_EscapedExceptionDiscardsEarlierPages ==
    [][/\ (pc = "page" /\ page_num > 1 /\ faults' > faults) =>
              /\ all_jobs # << >>
              /\ all_jobs' = << >> /\ jobs_to_process' = << >>
              /\ results' = AddError(results, NoJobsFound)
              /\ pc' = "finally" /\ db' = db
       /\ (pc \in {"finally", "returned"} /\ results.errors = <<NoJobsFound>>) =>
              /\ ~results.success /\ results.jobs_saved = 0 /\ results.jobs_scraped = 0
              /\ dbWrites = 0 /\ ~lastSave.called
              /\ results' = results \/ pc' = "setup"
      ]_vars

\* page 2 was reached by a navigation in which nothing raised, and the run
\* has returned with the error after the one failure
C29_Witness ==
    /\ pc = "returned" /\ faults = 1
    /\ navCalls >= 1 /\ lastNav.result /\ ~lastNav.raised
    /\ results.errors = <<NoJobsFound>> /\ ~results.success
    /\ all_jobs = << >> /\ dbWrites = 0

\* C30: in every result scrape_jobs returns, 0 <= jobs_saved <= jobs_scraped,
\* jobs_saved is the number of save_job_to_database calls of the run that
\* returned a record, 1 <= pages_scraped <= max_pages when success is True,
\* and all three counts are 0 when success is False.
C30_ResultCountsConsistent ==
    pc = "returned" =>
        /\ 0 <= results.jobs_saved /\ results.jobs_saved <= results.jobs_scraped
        /\ results.success =>
               /\ results.jobs_saved = dbWrites
               /\ results.jobs_scraped = Len(jobs_to_process)
               /\ 1 <= results.pages_scraped /\ results.pages_scraped <= max_pages
        /\ ~results.success =>
               /\ results.jobs_scraped = 0
               /\ results.jobs_saved = 0
               /\ results.pages_scraped = 0

\* a run has returned success=True with one job saved and one whose save
\* returned no record
C30_Witness ==
    /\ pc = "returned" /\ results.success
    /\ results.jobs_scraped = 2 /\ results.jobs_saved = 1 /\ dbWrites = 1
    /\ lastSave.called

====
